---- MODULE Spec2Model ----
(***************************************************************************)
(* AgentPilot workflows (src/src/members/workflow.py): the workflow editor *)
(* that accepts or rejects dependency edges (WorkflowSettings), the        *)
(* construction of a workflow from its configuration                       *)
(* (Workflow.load_members) and the turn engine (WorkflowBehaviour.receive).*)
(***************************************************************************)
EXTENDS Integers, Sequences, FiniteSets, TLC

VARIABLES
    \* ---- WorkflowSettings (the editor) ----
    members_in_view,   \* ids of the members shown in the editor
    lines,             \* (member_id, input_member_id) -> line config
    new_line,          \* <<>> (None) or <<the line being drawn>>
    ed_last,           \* the last editor handler that ran, and its outcome
    \* ---- Workflow.load_members ----
    config,            \* self.config, the workflow document
    members,           \* self.members, in insertion order
    boxes,             \* self.boxes, a list of sets of member ids
    pending,           \* the local list `members`: dicts not yet instantiated
    iter_pos,          \* how many items `iterable` has handed out
    current_box_member_ids,
    last_member_id,
    last_loc_x,
    load_pc,           \* "idle", "loop" (in the while loop), "done", "raised"
    autorun,           \* self.autorun
    load_history,      \* what each finished load_members left, in order
    turn_output,       \* member id -> its turn_output (None until produced)
    \* ---- WorkflowBehaviour.receive (one turn) ----
    responding,        \* workflow.responding
    gen_members,       \* workflow.gen_members
    from_member_id,    \* the argument of receive
    found_source,
    processed_members,
    loop_pos,          \* index in self.members.values() of the for loop
    turn_pc,           \* "idle", "for", "member" (driving one producer), "gather"
    task,              \* member id -> state of its producer in this turn
    started,           \* the producers started in this turn, in order, by step
    yielded,           \* the (member, role) pairs yielded to the caller
    turn_outcome,      \* how the last turn ended
    fresh,             \* every turn_output was None when the turn began
    stop_requested,    \* workflow.stop_requested
    promoted,          \* what the end of the turn did with the final message
    again,             \* the locals of a second call of receive made while
                       \* a turn is Responding
    \* ---- the root-scoped attributes of a chain of nested workflows ----
    held,              \* workflow -> attribute -> the value it holds itself
    \* ---- the contexts and contexts_messages tables ----
    db,
    \* ---- Workflow.save_message ----
    alt_turn_state,    \* message_history.alt_turn_state
    message_history,   \* the messages appended, in order
    last_save,         \* the last call of save_message and what it returned
    \* ---- Workflow.get_member_by_full_member_id ----
    lookup             \* the last lookup: the workflow, the id, the result

edVars == <<members_in_view, lines, new_line, ed_last>>
loadVars == <<config, members, boxes, pending, iter_pos,
              current_box_member_ids, last_member_id, last_loc_x, load_pc,
              autorun, load_history>>
turnVars == <<responding, gen_members, from_member_id, found_source,
              processed_members, loop_pos, turn_pc, task, started, yielded,
              turn_outcome, fresh, stop_requested, promoted>>
rootVars == <<held>>
dbVars == <<db>>
msgVars == <<alt_turn_state, message_history, last_save>>
pathVars == <<lookup>>
sideVars == <<rootVars, dbVars, msgVars, pathVars>>
mainVars == <<edVars, loadVars, turn_output, turnVars, again>>
vars == <<mainVars, sideVars>>

(***************************************************************************)
(* Bounds                                                                  *)
(***************************************************************************)
\* members shown in the editor
NumViewMembers == 3
\* lines the editor holds at most
MaxLines == 4

\* inputs (edges) a configuration lists at most
MaxInputs == 2

\* Python's None where an id or a value is expected
None == "None"

IdNames == <<"1", "2", "3", "4", "5", "6">>
ViewIds == {IdNames[i] : i \in 1..NumViewMembers}
\* The ids a configuration uses. Three participants are the least that show
\* a dependency through a third participant and a participant lying between
\* two members of a box.
CfgIds == {"1", "2", "3"}

(***************************************************************************)
(* Reachability over inputs, as the claims state it: t is reached from s   *)
(* by following one or more edges from a member to one of its inputs.      *)
(* E is a set of <<member_id, input_member_id>> pairs.                     *)
(***************************************************************************)
RECURSIVE InputsWithin(_, _, _)
InputsWithin(E, S, n) ==
    IF n = 0 THEN {}
    ELSE LET direct == {e[2] : e \in {x \in E : x[1] \in S}}
         IN  direct \cup InputsWithin(E, direct, n - 1)

Reaches(E, s, t) == t \in InputsWithin(E, {s}, Cardinality(E))

Acyclic(E) == \A e \in E : ~Reaches(E, e[1], e[1])

NonLoopLines(L) == {k \in DOMAIN L : L[k].looper = FALSE}

(***************************************************************************)
(* WorkflowSettings                                                        *)
(***************************************************************************)
\* check_for_circular_references: member_id is searched level by level in
\* the inputs of input_member_ids over the lines whose looper flag is False.
\* The code recurses without a visited set: a walk of more levels than there
\* are members has come back to a member and never ends, which Python ends
\* with RecursionError (raised).
RECURSIVE circular_walk(_, _, _, _)
circular_walk(L, member_id, input_member_ids, depth) ==
    LET connected_input_members ==
            {k[2] : k \in {x \in DOMAIN L : x[1] \in input_member_ids
                                            /\ L[x].looper = FALSE}}
    IN  IF member_id \in connected_input_members
            THEN [raised |-> FALSE, ret |-> TRUE]
        ELSE IF connected_input_members = {}
            THEN [raised |-> FALSE, ret |-> FALSE]
        ELSE IF depth = 0
            THEN [raised |-> TRUE, ret |-> FALSE]
        ELSE circular_walk(L, member_id, connected_input_members, depth - 1)

\* Mutant: the walk follows every line, loop-flagged or not.
check_following_loop_lines(L, member_id, input_member_ids) ==
    circular_walk([k \in DOMAIN L |-> [L[k] EXCEPT !.looper = FALSE]],
                  member_id, input_member_ids, NumViewMembers + 1)

check_for_circular_references(L, member_id, input_member_ids) ==
    circular_walk(L, member_id, input_member_ids, NumViewMembers + 1)

\* CustomGraphicsView.mousePressEvent on a member's output point, no line
\* being drawn: a new ConnectionLine from that member, config {}.
start_line(m) ==
    /\ UNCHANGED <<sideVars, loadVars, turn_output, turnVars, again>>
    /\ new_line = <<>>
    /\ m \in members_in_view
    /\ new_line' = <<[input_member_id |-> m, looper |-> FALSE]>>
    /\ ed_last' = [op |-> "start_line", member_id |-> m, input_member_id |-> m,
                   looper |-> FALSE, outcome |-> "drawing"]
    /\ UNCHANGED <<members_in_view, lines>>

\* ConnectionLine.updateEndPoint (mouseMoveEvent while a line is drawn):
\* closest is the member whose input point is nearest to the mouse and
\* within 20px, the line's own source excepted; None when none is.
updateEndPoint(closest) ==
    /\ UNCHANGED <<sideVars, loadVars, turn_output, turnVars, again>>
    /\ new_line # <<>>
    /\ closest # None => (closest \in members_in_view
                          /\ closest # new_line[1].input_member_id)
    /\ LET src == new_line[1].input_member_id
           cr  == IF closest = None THEN [raised |-> FALSE, ret |-> FALSE]
                  ELSE check_for_circular_references(lines, closest, {src})
       IN  /\ ~cr.raised
           /\ new_line' = <<[input_member_id |-> src, looper |-> cr.ret]>>
           /\ ed_last' = [op |-> "updateEndPoint",
                          member_id |-> IF closest = None THEN src ELSE closest,
                          input_member_id |-> src,
                          looper |-> cr.ret, outcome |-> "drawing"]
    /\ UNCHANGED <<members_in_view, lines>>

\* The line add_input creates, and the bookkeeping of its outcome.
AddedLine(member_id, input_member_id, is_looper) ==
    [k \in DOMAIN lines \cup {<<member_id, input_member_id>>} |->
        IF k = <<member_id, input_member_id>>
        THEN [input_type |-> "Message", looper |-> is_looper]
        ELSE lines[k]]

AddInputOutcome(member_id, outcome) ==
    ed_last' = [op |-> "add_input", member_id |-> member_id,
                input_member_id |-> new_line[1].input_member_id,
                looper |-> new_line[1].looper, outcome |-> outcome]

\* Mutant: add_input without the circular reference check.
add_input_unchecked(member_id) ==
    /\ UNCHANGED <<sideVars, loadVars, turn_output, turnVars, again>>
    /\ new_line # <<>>
    /\ member_id \in members_in_view
    /\ LET input_member_id == new_line[1].input_member_id
       IN  IF member_id = input_member_id
                  \/ <<member_id, input_member_id>> \in DOMAIN lines
               THEN AddInputOutcome(member_id, "ignored_self")
                    /\ UNCHANGED <<members_in_view, lines, new_line>>
           ELSE /\ Cardinality(DOMAIN lines) < MaxLines
                /\ lines' = AddedLine(member_id, input_member_id, new_line[1].looper)
                /\ new_line' = <<>>
                /\ AddInputOutcome(member_id, "added")
                /\ UNCHANGED members_in_view

\* Mutant: add_input rejects a circular reference whatever the looper flag.
add_input_rejecting_loopers(member_id) ==
    /\ UNCHANGED <<sideVars, loadVars, turn_output, turnVars, again>>
    /\ new_line # <<>>
    /\ member_id \in members_in_view
    /\ LET input_member_id == new_line[1].input_member_id
           cr_check == check_for_circular_references(lines, member_id, {input_member_id})
       IN  IF member_id = input_member_id
                  \/ <<member_id, input_member_id>> \in DOMAIN lines
               THEN AddInputOutcome(member_id, "ignored_self")
                    /\ UNCHANGED <<members_in_view, lines, new_line>>
           ELSE IF cr_check.ret
               THEN AddInputOutcome(member_id, "rejected")
                    /\ UNCHANGED <<members_in_view, lines, new_line>>
           ELSE /\ Cardinality(DOMAIN lines) < MaxLines
                /\ lines' = AddedLine(member_id, input_member_id, new_line[1].looper)
                /\ new_line' = <<>>
                /\ AddInputOutcome(member_id, "added")
                /\ UNCHANGED members_in_view

\* WorkflowSettings.add_input (mousePressEvent on a member's input point
\* while a line is drawn).
add_input(member_id) ==
    /\ UNCHANGED <<sideVars, loadVars, turn_output, turnVars, again>>
    /\ new_line # <<>>
    /\ member_id \in members_in_view
    /\ LET input_member_id == new_line[1].input_member_id
           is_looper == new_line[1].looper
           cr_check == check_for_circular_references(lines, member_id, {input_member_id})
       IN  IF member_id = input_member_id
               THEN AddInputOutcome(member_id, "ignored_self")
                    /\ UNCHANGED <<members_in_view, lines, new_line>>
           ELSE IF <<member_id, input_member_id>> \in DOMAIN lines
               THEN AddInputOutcome(member_id, "ignored_exists")
                    /\ UNCHANGED <<members_in_view, lines, new_line>>
           ELSE IF cr_check.raised
               THEN AddInputOutcome(member_id, "raised")
                    /\ UNCHANGED <<members_in_view, lines, new_line>>
           ELSE IF cr_check.ret /\ ~is_looper
               THEN AddInputOutcome(member_id, "rejected")
                    /\ UNCHANGED <<members_in_view, lines, new_line>>
           ELSE IF input_member_id \notin members_in_view
               THEN AddInputOutcome(member_id, "raised")       \* KeyError
                    /\ UNCHANGED <<members_in_view, lines, new_line>>
           ELSE /\ Cardinality(DOMAIN lines) < MaxLines
                /\ lines' = AddedLine(member_id, input_member_id, is_looper)
                /\ new_line' = <<>>
                /\ AddInputOutcome(member_id, "added")
                /\ UNCHANGED members_in_view

\* CustomGraphicsView.cancel_new_line, and a click away from every member.
cancel_new_line ==
    /\ UNCHANGED <<sideVars, loadVars, turn_output, turnVars, again>>
    /\ new_line # <<>>
    /\ new_line' = <<>>
    /\ ed_last' = [op |-> "cancel_new_line",
                   member_id |-> new_line[1].input_member_id,
                   input_member_id |-> new_line[1].input_member_id,
                   looper |-> new_line[1].looper, outcome |-> "cancelled"]
    /\ UNCHANGED <<members_in_view, lines>>

\* Mutant: the loop flag is stored as the form gives it.
InputSettings_save_config_unchecked(input_key, is_looper) ==
    /\ UNCHANGED <<sideVars, loadVars, turn_output, turnVars, again>>
    /\ input_key \in DOMAIN lines
    /\ lines' = [lines EXCEPT ![input_key].looper = is_looper]
    /\ ed_last' = [op |-> "save_config", member_id |-> input_key[1],
                   input_member_id |-> input_key[2],
                   looper |-> is_looper, outcome |-> "saved"]
    /\ UNCHANGED <<members_in_view, new_line>>

\* InputSettings.save_config for the selected line input_key: is_looper is
\* the Looper field of the form. A flag that is cleared is checked for a
\* circular reference; if there is one the flag is set again.
InputSettings_save_config(input_key, is_looper) ==
    /\ UNCHANGED <<sideVars, loadVars, turn_output, turnVars, again>>
    /\ input_key \in DOMAIN lines
    /\ LET member_id == input_key[1]
           input_member_id == input_key[2]
           cr_check == IF is_looper THEN [raised |-> FALSE, ret |-> FALSE]
                       ELSE check_for_circular_references(lines, member_id,
                                                          {input_member_id})
       IN  /\ lines' = IF cr_check.raised THEN lines
                       ELSE [lines EXCEPT ![input_key].looper = is_looper \/ cr_check.ret]
           /\ ed_last' = [op |-> "save_config", member_id |-> member_id,
                          input_member_id |-> input_member_id,
                          looper |-> is_looper,
                          outcome |-> IF cr_check.raised THEN "raised"
                                      ELSE IF cr_check.ret THEN "looper_set"
                                      ELSE "saved"]
    /\ UNCHANGED <<members_in_view, new_line>>

\* CustomGraphicsView.delete_selected_items: the selected members, the lines
\* at them and the selected lines go, if anything is selected and the user
\* confirms.
delete_selected_items(selected_members, selected_lines, confirmed) ==
    /\ UNCHANGED <<sideVars, loadVars, turn_output, turnVars, again>>
    /\ selected_members \subseteq members_in_view
    /\ selected_lines \subseteq DOMAIN lines
    /\ LET del_member_ids == selected_members
           del_inputs == selected_lines \cup
                         {k \in DOMAIN lines : k[1] \in selected_members
                                                \/ k[2] \in selected_members}
           deleted == confirmed /\ del_member_ids \cup del_inputs # {}
       IN  /\ members_in_view' = IF deleted THEN members_in_view \ del_member_ids
                                 ELSE members_in_view
           /\ lines' = IF deleted THEN [k \in DOMAIN lines \ del_inputs |-> lines[k]]
                       ELSE lines
           /\ ed_last' = [op |-> "delete_selected_items", member_id |-> None,
                          input_member_id |-> None, looper |-> FALSE,
                          outcome |-> IF deleted THEN "deleted" ELSE "kept"]
    /\ UNCHANGED new_line


(***************************************************************************)
(* Workflow.load_members                                                   *)
(***************************************************************************)
\* `abs(loc_x - last_loc_x) < 10`
BoxThreshold == 10
\* `last_loc_x = -100`
InitialLastLocX == -100

Abs(x) == IF x < 0 THEN 0 - x ELSE x

SeqToSet(q) == {q[i] : i \in 1..Len(q)}

\* ids of the instantiated members (the keys of self.members)
MemberIdsOf(M) == {M[i].member_id : i \in 1..Len(M)}

MemberById(M, member_id) == CHOOSE m \in SeqToSet(M) : m.member_id = member_id

\* sorted(members, key=lambda x: x['loc_x']): stable, ascending
RECURSIVE InsertByLocX(_, _)
InsertByLocX(sorted, x) ==
    IF sorted = <<>> THEN <<x>>
    ELSE IF sorted[Len(sorted)].loc_x <= x.loc_x THEN Append(sorted, x)
    ELSE Append(InsertByLocX(SubSeq(sorted, 1, Len(sorted) - 1), x),
                sorted[Len(sorted)])

\* Mutant: the member dicts are left in document order.
sorted_in_document_order(q) == q

RECURSIVE SortedByLocX(_)
SortedByLocX(q) ==
    IF q = <<>> THEN <<>>
    ELSE InsertByLocX(SortedByLocX(SubSeq(q, 1, Len(q) - 1)), q[Len(q)])

RemoveAt(q, i) == SubSeq(q, 1, i - 1) \o SubSeq(q, i + 1, Len(q))

\* members.remove(member_dict): the first equal element goes
RemoveFirst(q, x) ==
    RemoveAt(q, CHOOSE i \in 1..Len(q) : q[i] = x /\ \A j \in 1..(i - 1) : q[j] # x)

\* Mutant: the inputs are not looked at.
member_input_ids_ignored(inputs, member_id) == {}

\* Mutant: the looper flag is not looked at.
member_input_ids_with_loopers(inputs, member_id) ==
    {inp.input_member_id : inp \in {x \in inputs : x.member_id = member_id}}

\* member_input_ids: the inputs of member_id whose looper flag is not set
member_input_ids_of(inputs, member_id) ==
    {inp.input_member_id : inp \in {x \in inputs : x.member_id = member_id
                                                  /\ ~x.looper}}

\* Mutant: only the direct inputs are looked at.
walk_inputs_direct(M, member_id, search_list) ==
    \E inp \in MemberById(M, member_id).inputs : inp \in search_list

\* walk_inputs_recursive: some member of search_list is met on the way up
\* member_id's inputs.
RECURSIVE walk_inputs_recursive(_, _, _)
walk_inputs_recursive(M, member_id, search_list) ==
    \E inp \in MemberById(M, member_id).inputs :
        inp \in search_list \/ walk_inputs_recursive(M, inp, search_list)

\* The locals and attributes load_members works on, as one value.
LoadState ==
    [members |-> members, boxes |-> boxes, pending |-> pending,
     iter_pos |-> iter_pos, current_box_member_ids |-> current_box_member_ids,
     last_member_id |-> last_member_id, last_loc_x |-> last_loc_x,
     load_pc |-> load_pc]

\* `config.get('_TYPE', 'agent')`
config_type(cfg) == IF "_TYPE" \in DOMAIN cfg THEN cfg._TYPE ELSE "agent"

\* Mutant: a human is put before a single participant of every kind
merge_with_user_always(cfg) ==
    IF config_type(cfg) = "workflow" THEN cfg
    ELSE [_TYPE |-> "workflow",
          members |-> <<[id |-> "1", type |-> "user", loc_x |-> 20],
                        [id |-> "2", type |-> config_type(cfg), loc_x |-> 100]>>,
          inputs |-> {}]

\* helpers.merge_config_into_workflow_config: a member dict's type is the
\* '_TYPE' of its 'config'
merge_config_into_workflow_config(cfg) ==
    IF config_type(cfg) = "workflow" THEN cfg
    ELSE IF config_type(cfg) = "agent"
    THEN [_TYPE |-> "workflow",
          members |-> <<[id |-> "1", type |-> "user", loc_x |-> 20],
                        [id |-> "2", type |-> "agent", loc_x |-> 100]>>,
          inputs |-> {}]
    ELSE [_TYPE |-> "workflow",
          members |-> <<[id |-> "1", type |-> config_type(cfg), loc_x |-> 100]>>,
          inputs |-> {}]

\* The local `members` of load_members before it is sorted
document_members(cfg) ==
    IF config_type(cfg) = "workflow" THEN cfg.members
    ELSE merge_config_into_workflow_config(cfg).members

\* `inputs = self.config.get('inputs', [])`
document_inputs(cfg) == IF "inputs" \in DOMAIN cfg THEN cfg.inputs ELSE {}

\* Mutant: self.members and self.boxes are not emptied
load_members_entry_keeping(cfg) ==
    [members |-> members, boxes |-> boxes, pending |-> SortedByLocX(document_members(cfg)),
     iter_pos |-> 0, current_box_member_ids |-> {},
     last_member_id |-> None, last_loc_x |-> InitialLastLocX,
     load_pc |-> "loop"]

\* load_members up to the while loop.
load_members_entry(cfg) ==
    [members |-> <<>>, boxes |-> <<>>, pending |-> SortedByLocX(document_members(cfg)),
     iter_pos |-> 0, current_box_member_ids |-> {},
     last_member_id |-> None, last_loc_x |-> InitialLastLocX,
     load_pc |-> "loop"]

\* Mutant: the box bookkeeping is done for members of every kind
box_step_any_kind(s, member_id, member_type, loc_x) ==
    LET near == Abs(loc_x - s.last_loc_x) < BoxThreshold
    IN  [s EXCEPT
           !.current_box_member_ids =
               IF near
               THEN (IF s.last_member_id # None
                     THEN @ \cup {s.last_member_id} ELSE @) \cup {member_id}
               ELSE {},
           !.boxes = IF ~near /\ s.current_box_member_ids # {}
                     THEN Append(@, s.current_box_member_ids) ELSE @,
           !.last_loc_x = loc_x,
           !.last_member_id = member_id]

\* The box bookkeeping done when a member is instantiated.
box_step(s, member_id, member_type, loc_x) ==
    IF member_type \in {"workflow", "agent", "block"}
    THEN LET near == Abs(loc_x - s.last_loc_x) < BoxThreshold
         IN  [s EXCEPT
                !.current_box_member_ids =
                    IF near
                    THEN (IF s.last_member_id # None
                          THEN @ \cup {s.last_member_id} ELSE @) \cup {member_id}
                    ELSE {},
                !.boxes = IF ~near /\ s.current_box_member_ids # {}
                          THEN Append(@, s.current_box_member_ids) ELSE @,
                !.last_loc_x = loc_x,
                !.last_member_id = member_id]
    ELSE s

\* One pass of the body of `while len(members) > 0`.
load_members_iteration(cfg, s) ==
    IF s.iter_pos >= Len(s.pending)
    THEN [s EXCEPT !.iter_pos = 0]                       \* StopIteration
    ELSE LET member_dict == s.pending[s.iter_pos + 1]
             member_id == member_dict.id
             member_input_ids == member_input_ids_of(document_inputs(cfg), member_id)
             member_type == member_dict.type
         IN  IF member_input_ids # {}
                  /\ ~(member_input_ids \subseteq MemberIdsOf(s.members))
             THEN [s EXCEPT !.iter_pos = @ + 1]           \* continue
             ELSE IF member_type \notin {"agent", "workflow", "user", "block", "node"}
             THEN [s EXCEPT !.load_pc = "raised"]         \* NotImplementedError
             ELSE LET b == box_step(s, member_id, member_type, member_dict.loc_x)
                      member == [member_id |-> member_id, type |-> member_type,
                                 loc_x |-> member_dict.loc_x,
                                 inputs |-> member_input_ids]
                  IN  [b EXCEPT
                         !.members =
                             IF member_id \in MemberIdsOf(@)
                             THEN [i \in 1..Len(@) |->
                                     IF @[i].member_id = member_id THEN member ELSE @[i]]
                             ELSE Append(@, member),
                         !.pending = RemoveFirst(@, member_dict),
                         !.iter_pos = 0]

\* Mutant: no box is removed
load_members_exit_keeping_boxes(s) ==
    [s EXCEPT !.boxes = IF s.current_box_member_ids # {}
                        THEN Append(s.boxes, s.current_box_member_ids) ELSE s.boxes,
              !.load_pc = "done"]

\* load_members after the while loop: the box in progress is closed, and
\* every box one of whose members reaches the box over inputs is removed.
load_members_exit(s) ==
    LET all_boxes == IF s.current_box_member_ids # {}
                     THEN Append(s.boxes, s.current_box_member_ids) ELSE s.boxes
        del(box) == \E member_id \in box :
                        walk_inputs_recursive(s.members, member_id, box)
    IN  [s EXCEPT !.boxes = SelectSeq(all_boxes, LAMBDA box : ~del(box)),
                  !.load_pc = "done"]

\* The members load_members instantiates are new objects: their turn_output
\* is None until they produce.
FreshOutputs(M) == [id \in MemberIdsOf(M) |-> None]

SetLoadState(s) ==
    /\ turn_output' = FreshOutputs(s.members)
    /\ members' = s.members
    /\ boxes' = s.boxes
    /\ pending' = s.pending
    /\ iter_pos' = s.iter_pos
    /\ current_box_member_ids' = s.current_box_member_ids
    /\ last_member_id' = s.last_member_id
    /\ last_loc_x' = s.last_loc_x
    /\ load_pc' = s.load_pc

\* What a load leaves to the workflow: self.members (ids, kinds, positions
\* and inputs in stored order) and self.boxes
Built(s) == [members |-> s.members, boxes |-> s.boxes]

\* The loads of one workflow that are followed
MaxLoads == 2

\* Workflow.load calls load_members (at construction, and on every reload).
load_begin ==
    /\ load_pc \in {"idle", "done"}
    /\ Len(load_history) < MaxLoads
    /\ turn_pc = "idle"
    /\ autorun' = config.autorun
    /\ SetLoadState(load_members_entry(config))
    /\ UNCHANGED <<sideVars, config, load_history, edVars, turnVars, again>>

load_iterate ==
    /\ load_pc = "loop"
    /\ Len(pending) > 0
    /\ SetLoadState(load_members_iteration(config, LoadState))
    /\ UNCHANGED <<sideVars, config, autorun, load_history, edVars, turnVars, again>>

load_finish ==
    /\ load_pc = "loop"
    /\ Len(pending) = 0
    /\ SetLoadState(load_members_exit(LoadState))
    /\ load_history' = Append(load_history, Built(load_members_exit(LoadState)))
    /\ UNCHANGED <<sideVars, config, autorun, edVars, turnVars, again>>

\* The configurations loaded: up to three participants with ids
\* "1", "2", "3" in document order, and up to MaxInputs inputs among CfgIds
\* (an input may name an id the document does not list).
CfgTypes == {"user", "agent", "node"}
LocXs == {0, 5, 12}

MemberLists ==
    UNION {{[i \in 1..n |-> [id |-> IdNames[i], type |-> t[i], loc_x |-> x[i]]] :
                t \in [1..n -> CfgTypes], x \in [1..n -> LocXs]} :
           n \in 1..Cardinality(CfgIds)}

InputDicts ==
    {inp \in [member_id : CfgIds, input_member_id : CfgIds, looper : BOOLEAN] :
        inp.member_id # inp.input_member_id}

RECURSIVE SubsetsUpTo(_, _)
SubsetsUpTo(S, k) ==
    IF k = 0 THEN {{}}
    ELSE LET smaller == SubsetsUpTo(S, k - 1)
         IN  smaller \cup {T \cup {x} : T \in smaller, x \in S}

InputSets ==
    {I \in SubsetsUpTo(InputDicts, MaxInputs) :
        \A a \in I, b \in I :
            (a.member_id = b.member_id /\ a.input_member_id = b.input_member_id)
                => a = b}

Configs == [_TYPE : {"workflow"}, members : MemberLists, inputs : InputSets,
            autorun : {TRUE}, filter_role : {"All"},
            parent_workflow : {FALSE}, main : {TRUE}]

\* The while loop of load_members as one value: it is run until it is left
\* or an error is raised, for as many passes as a loadable configuration can
\* need.
RECURSIVE run_while(_, _, _)
run_while(cfg, s, passes) ==
    IF s.load_pc # "loop" \/ Len(s.pending) = 0 \/ passes = 0 THEN s
    ELSE run_while(cfg, load_members_iteration(cfg, s), passes - 1)

\* load_members from entry to return, as one value
run_load(cfg, s, passes) ==
    LET w == run_while(cfg, s, passes)
    IN  IF w.load_pc = "loop" /\ Len(w.pending) = 0 THEN load_members_exit(w) ELSE w

\* The passes a loadable configuration can need
LoadPasses(cfg) == (Len(document_members(cfg)) + 1) * (Len(document_members(cfg)) + 1)

load_members(cfg) == run_load(cfg, load_members_entry(cfg), LoadPasses(cfg))

(***************************************************************************)
(* Workflow: the members a turn looks at                                   *)
(***************************************************************************)
\* Position of a member in self.members.values()
IndexOf(M, member_id) == CHOOSE i \in 1..Len(M) : M[i].member_id = member_id

\* Mutant: structural nodes are not excluded.
get_members_with_nodes(M) == M

\* get_members() with its default arguments: 'node' is always excluded
get_members(M) == SelectSeq(M, LAMBDA m : m.type # "node")

\* The members get_members() lists whose turn_output is None, in order
PendingMembers ==
    SelectSeq(get_members(members), LAMBDA m : turn_output[m.member_id] = None)

\* next_expected_member: the id of the first of them, or None
next_expected_member ==
    IF PendingMembers = <<>> THEN None ELSE PendingMembers[1].member_id

\* Mutant: true as long as any member is pending.
some_member_pending == Len(PendingMembers) >= 1

next_expected_is_last_member == Len(PendingMembers) = 1

\* Mutant: no member has a box.
get_no_async_group(member_id) == {}

\* get_member_async_group: the first box holding member_id ({} for None)
get_member_async_group(member_id) ==
    IF \E i \in 1..Len(boxes) : member_id \in boxes[i]
    THEN boxes[CHOOSE i \in 1..Len(boxes) :
                   /\ member_id \in boxes[i]
                   /\ \A j \in 1..(i - 1) : member_id \notin boxes[j]]
    ELSE {}

\* asyncio runs one call of receive at a time: a call takes its steps only
\* while the other one is suspended on a producer or has ended, never in
\* the middle of the other's pass of the for loop.
OtherCallSuspended == again.pc # "for"

FirstCallSuspended == turn_pc # "for"

\* How a member's producer can have ended without raising
TaskEnded == {"done", "skipped"}

\* A producer that has not ended: running, or cancelled through its task
\* handle and yet to see the CancelledError
TaskLive == {"running", "cancelling"}

\* reset_last_outputs
reset_last_outputs ==
    /\ turn_pc = "idle"
    /\ load_pc = "done"
    /\ \A id \in DOMAIN task : task[id] \notin TaskLive
    /\ \E id \in DOMAIN turn_output : turn_output[id] # None
    /\ turn_output' = [id \in DOMAIN turn_output |-> None]
    /\ UNCHANGED <<sideVars, edVars, loadVars, again, turnVars>>

(***************************************************************************)
(* WorkflowBehaviour.receive                                               *)
(*                                                                         *)
(* A member's producer (run_member) belongs to the member classes: here it *)
(* is what the engine can observe of it. While it runs it hands out        *)
(* (role, chunk) pairs, it may store its turn_output, and it ends by       *)
(* running out, by the ('SYS', 'SKIP') marker, or by raising.              *)
(***************************************************************************)
pause_on == {"user", "contact"}

\* The roles a producer's chunks carry
Roles == {"assistant", "code"}

\* str.lower() on the values filter_role takes
Lower(str) == IF str = "All" THEN "all"
              ELSE IF str = "Assistant" THEN "assistant" ELSE str

\* The member the for loop is at
LoopMember == members[loop_pos]

\* Mutant: the `finally` block is left out.
EndTurn_without_finally(how) ==
    /\ turn_outcome' = how
    /\ turn_pc' = "idle"
    /\ UNCHANGED <<loop_pos, gen_members, responding>>

\* `finally`: runs on every way out of the try block
EndTurn(how) ==
    /\ turn_outcome' = how
    /\ gen_members' = {}
    /\ responding' = FALSE
    /\ turn_pc' = "idle"
    /\ UNCHANGED loop_pos

\* Mutant: autorun is not looked at.
AfterMember_ignoring_autorun(f) ==
    IF LoopMember.type \in pause_on /\ LoopMember.member_id # f
    THEN EndTurn("Paused")
    ELSE /\ loop_pos' = loop_pos + 1
         /\ turn_pc' = "for"
         /\ UNCHANGED <<turn_outcome, gen_members, responding>>

\* The two checks after a member or a group, for a turn asked from f
AfterMember(f) ==
    IF ~autorun THEN EndTurn("Paused")
    ELSE IF LoopMember.type \in pause_on /\ LoopMember.member_id # f
         THEN EndTurn("Paused")
         ELSE /\ loop_pos' = loop_pos + 1
              /\ turn_pc' = "for"
              /\ UNCHANGED <<turn_outcome, gen_members, responding>>

\* Nothing was read, saved or emitted
NotPromoted ==
    [read |-> FALSE, final_message |-> FALSE, saved |-> FALSE, emitted |-> FALSE]

\* promote_final_message without the test of _parent_workflow
promote_final_message_at_root ==
    \E final_message \in BOOLEAN :
        promoted' = [read |-> TRUE,
                     final_message |-> final_message,
                     saved |-> final_message,
                     emitted |-> final_message /\ config.main]

\* The statements after the for loop: a workflow that has a parent reads
\* its final message; if there is one it is saved under full_member_id(),
\* and new_sentence_signal is emitted if the workflow has a main object.
\* Whether the history holds a message of this workflow (final_message) is
\* an input; it is recorded whether or not the code reads it.
promote_final_message ==
    \E final_message \in BOOLEAN :
        LET read == config.parent_workflow
            saved == read /\ final_message
        IN  promoted' = [read |-> read,
                         final_message |-> final_message,
                         saved |-> saved,
                         emitted |-> saved /\ config.main]

\* receive, up to the for loop
receive(f) ==
    /\ OtherCallSuspended
    /\ turn_pc = "idle"
    /\ load_pc = "done"
    /\ \A id \in DOMAIN task : task[id] \notin TaskLive
    /\ from_member_id' = f
    /\ gen_members' = {}
    /\ found_source' = FALSE
    /\ processed_members' = {}
    /\ task' = [id \in MemberIdsOf(members) |-> "none"]
    /\ started' = <<>>
    /\ yielded' = {}
    /\ fresh' = (\A id \in DOMAIN turn_output : turn_output[id] = None)
    /\ IF Len(members) = 0
       THEN /\ turn_outcome' = "Completed"
            /\ UNCHANGED <<responding, loop_pos, turn_pc>>
       ELSE /\ turn_outcome' = "none"
            /\ responding' = TRUE
            /\ loop_pos' = 1
            /\ turn_pc' = "for"
    /\ promoted' = NotPromoted
    /\ UNCHANGED <<sideVars, edVars, loadVars, again, turn_output, stop_requested>>

\* Mutant: the members of a started group are not marked as processed
turn_for_from_not_marking(f) ==
    /\ OtherCallSuspended
    /\ turn_pc = "for"
    /\ IF loop_pos > Len(members)
       THEN /\ promote_final_message
            /\ EndTurn("Completed")
            /\ UNCHANGED <<found_source, processed_members, task, started>>
       ELSE LET member_id == LoopMember.member_id
                found == found_source \/ member_id = f \/ f = None
                group == get_member_async_group(member_id)
            IN  /\ found_source' = found
                /\ IF ~found
                   THEN /\ loop_pos' = loop_pos + 1
                        /\ UNCHANGED <<processed_members, task, started,
                                       turn_pc, gen_members, promoted>>
                   ELSE IF group # {}
                   THEN /\ gen_members' = group
                        /\ task' = [id \in DOMAIN task |->
                                      IF id \in group THEN "running" ELSE task[id]]
                        /\ started' = Append(started, group)
                        /\ turn_pc' = "gather"
                        /\ UNCHANGED <<loop_pos, processed_members, promoted>>
                   ELSE /\ gen_members' = {member_id}
                        /\ task' = [task EXCEPT ![member_id] = "running"]
                        /\ started' = Append(started, {member_id})
                        /\ turn_pc' = "member"
                        /\ UNCHANGED <<loop_pos, processed_members, promoted>>
                /\ UNCHANGED <<turn_outcome, responding>>
    /\ UNCHANGED <<sideVars, edVars, loadVars, again, turn_output, from_member_id, yielded, fresh,
                   stop_requested>>

\* One pass of `for member in self.workflow.members.values()` up to the
\* start of the member's producer or of its group, for a turn asked from f
turn_for_from(f) ==
    /\ OtherCallSuspended
    /\ turn_pc = "for"
    /\ IF loop_pos > Len(members)
       THEN /\ promote_final_message
            /\ EndTurn("Completed")
            /\ UNCHANGED <<found_source, processed_members, task, started>>
       ELSE LET member_id == LoopMember.member_id
                found == found_source \/ member_id = f \/ f = None
                group == get_member_async_group(member_id)
                group_tasks == group \ processed_members
            IN  /\ found_source' = found
                /\ IF ~found \/ member_id \in processed_members
                   THEN /\ loop_pos' = loop_pos + 1                \* continue
                        /\ UNCHANGED <<processed_members, task, started,
                                       turn_pc, gen_members, promoted>>
                   ELSE IF group # {}
                   THEN /\ gen_members' = group
                        /\ processed_members' = processed_members \cup group_tasks
                        /\ task' = [id \in DOMAIN task |->
                                      IF id \in group_tasks THEN "running" ELSE task[id]]
                        /\ started' = Append(started, group_tasks)
                        /\ turn_pc' = "gather"
                        /\ UNCHANGED <<loop_pos, promoted>>
                   ELSE /\ gen_members' = {member_id}
                        /\ task' = [task EXCEPT ![member_id] = "running"]
                        /\ started' = Append(started, {member_id})
                        /\ turn_pc' = "member"
                        /\ UNCHANGED <<loop_pos, processed_members, promoted>>
                /\ UNCHANGED <<turn_outcome, responding>>
    /\ UNCHANGED <<sideVars, edVars, loadVars, again, turn_output, from_member_id, yielded, fresh,
                   stop_requested>>

turn_for == turn_for_from(from_member_id)

\* The member's producer, driven by `async for key, chunk in
\* member.run_member()`, hands out a chunk of the given role.
member_chunk(role) ==
    /\ OtherCallSuspended
    /\ turn_pc = "member"
    /\ task[LoopMember.member_id] = "running"
    /\ LET member_id == LoopMember.member_id
           filter_role == Lower(config.filter_role)
       IN  yielded' =
               IF /\ next_expected_is_last_member
                  /\ member_id = next_expected_member
                  /\ (role = filter_role \/ filter_role = "all")
               THEN yielded \cup {[member_id |-> member_id, role |-> role]}
               ELSE yielded
    /\ yielded' # yielded
    /\ UNCHANGED <<sideVars, edVars, loadVars, again, turn_output, responding, gen_members,
                   from_member_id, found_source, processed_members, loop_pos,
                   turn_pc, task, started, turn_outcome, fresh,
                   stop_requested, promoted>>

\* A running producer stores its member's turn_output. A structural node
\* produces nothing.
producer_output(member_id) ==
    /\ OtherCallSuspended
    /\ task[member_id] = "running"
    /\ MemberById(members, member_id).type # "node"
    /\ turn_output[member_id] = None
    /\ turn_output' = [turn_output EXCEPT ![member_id] = "out"]
    /\ UNCHANGED <<sideVars, edVars, loadVars, again, turnVars>>

\* Mutant: the marker ends the turn (`return`)
member_skip_returning(f) ==
    /\ OtherCallSuspended
    /\ turn_pc = "member"
    /\ task[LoopMember.member_id] = "running"
    /\ task' = [task EXCEPT ![LoopMember.member_id] = "skipped"]
    /\ EndTurn("Completed")
    /\ UNCHANGED <<sideVars, edVars, loadVars, again, turn_output, from_member_id, found_source,
                   processed_members, started, yielded, fresh,
                   stop_requested, promoted>>

\* The driven producer hands out ('SYS', 'SKIP'): `break`
member_skip_from(f) ==
    /\ OtherCallSuspended
    /\ turn_pc = "member"
    /\ task[LoopMember.member_id] = "running"
    /\ task' = [task EXCEPT ![LoopMember.member_id] = "skipped"]
    /\ AfterMember(f)
    /\ UNCHANGED <<sideVars, edVars, loadVars, again, turn_output, from_member_id, found_source,
                   processed_members, started, yielded, fresh,
                   stop_requested, promoted>>

member_skip == member_skip_from(from_member_id)

\* The driven producer runs out.
member_finish_from(f) ==
    /\ OtherCallSuspended
    /\ turn_pc = "member"
    /\ task[LoopMember.member_id] = "running"
    /\ task' = [task EXCEPT ![LoopMember.member_id] = "done"]
    /\ AfterMember(f)
    /\ UNCHANGED <<sideVars, edVars, loadVars, again, turn_output, from_member_id, found_source,
                   processed_members, started, yielded, fresh,
                   stop_requested, promoted>>

member_finish == member_finish_from(from_member_id)

\* The driven producer raises: `except Exception as e: raise e`
member_raise ==
    /\ OtherCallSuspended
    /\ turn_pc = "member"
    /\ task[LoopMember.member_id] = "running"
    /\ task' = [task EXCEPT ![LoopMember.member_id] = "raised"]
    /\ EndTurn("Failed")
    /\ UNCHANGED <<sideVars, edVars, loadVars, again, turn_output, from_member_id, found_source,
                   processed_members, started, yielded, fresh,
                   stop_requested, promoted>>

\* A task of run_group (run_member_task) runs its producer out; the engine
\* looks at none of its chunks, the SKIP marker included.
group_task_finish(member_id) ==
    /\ OtherCallSuspended
    /\ task[member_id] = "running"
    /\ ~(turn_pc = "member" /\ member_id = LoopMember.member_id)
    /\ task' = [task EXCEPT ![member_id] = "done"]
    /\ UNCHANGED <<sideVars, edVars, loadVars, again, turn_output, responding, gen_members,
                   from_member_id, found_source, processed_members, loop_pos,
                   turn_pc, started, yielded, turn_outcome, fresh,
                   stop_requested, promoted>>

\* Mutant: the exception of a group task is kept from receive.
group_task_raise_swallowed(member_id) ==
    /\ task[member_id] = "running"
    /\ ~(turn_pc = "member" /\ member_id = LoopMember.member_id)
    /\ task' = [task EXCEPT ![member_id] = "raised"]
    /\ UNCHANGED <<sideVars, edVars, loadVars, again, turn_output, responding, gen_members,
                   from_member_id, found_source, processed_members, loop_pos,
                   turn_pc, started, yielded, turn_outcome, fresh,
                   stop_requested, promoted>>

\* A task of run_group raises: asyncio.gather hands the exception to
\* receive at once and leaves the other tasks running.
group_task_raise(member_id) ==
    /\ OtherCallSuspended
    /\ task[member_id] = "running"
    /\ ~(turn_pc = "member" /\ member_id = LoopMember.member_id)
    /\ task' = [task EXCEPT ![member_id] = "raised"]
    /\ IF turn_pc = "gather"
       THEN EndTurn("Failed")
       ELSE UNCHANGED <<turn_outcome, gen_members, responding, turn_pc, loop_pos>>
    /\ UNCHANGED <<sideVars, edVars, loadVars, again, turn_output, from_member_id, found_source,
                   processed_members, started, yielded, fresh,
                   stop_requested, promoted>>

\* Mutant: the engine waits until every member of the workflow has ended
gather_done_awaiting_all(f) ==
    /\ OtherCallSuspended
    /\ turn_pc = "gather"
    /\ \A id \in DOMAIN task : task[id] \in TaskEnded
    /\ AfterMember(f)
    /\ UNCHANGED <<sideVars, edVars, loadVars, again, turn_output, from_member_id, found_source,
                   processed_members, task, started, yielded, fresh,
                   stop_requested, promoted>>

\* `await asyncio.gather(*group_tasks)` returns: every task has ended.
gather_done_from(f) ==
    /\ OtherCallSuspended
    /\ turn_pc = "gather"
    /\ \A id \in DOMAIN task : task[id] \notin TaskLive
    /\ AfterMember(f)
    /\ UNCHANGED <<sideVars, edVars, loadVars, again, turn_output, from_member_id, found_source,
                   processed_members, task, started, yielded, fresh,
                   stop_requested, promoted>>

gather_done == gather_done_from(from_member_id)

\* WorkflowBehaviour.stop: the flag is set and the task handle
\* (response_task) of every member that has one is cancelled. A producer
\* that has not ended holds such a handle.
stop ==
    /\ load_pc = "done"
    /\ stop_requested' = TRUE
    /\ task' = [id \in DOMAIN task |->
                  IF task[id] = "running" THEN "cancelling" ELSE task[id]]
    /\ UNCHANGED <<sideVars, edVars, loadVars, again, turn_output, responding, gen_members,
                   from_member_id, found_source, processed_members, loop_pos,
                   turn_pc, started, yielded, turn_outcome, fresh, promoted>>

\* A producer cancelled through its handle sees the CancelledError. If
\* receive is waiting on it, alone or through asyncio.gather, the error
\* reaches receive: `except asyncio.CancelledError: pass`.
task_cancelled(member_id) ==
    /\ task[member_id] = "cancelling"
    /\ task' = [task EXCEPT ![member_id] = "cancelled"]
    /\ IF turn_pc \in {"member", "gather"}
       THEN EndTurn("Cancelled")
       ELSE UNCHANGED <<turn_outcome, gen_members, responding, turn_pc, loop_pos>>
    /\ UNCHANGED <<sideVars, edVars, loadVars, again, turn_output, from_member_id, found_source,
                   processed_members, started, yielded, fresh, stop_requested, promoted>>

\* The task running receive is cancelled while it waits on a producer:
\* `except asyncio.CancelledError: pass`. The producers it waits on are
\* cancelled with it.
cancel_turn ==
    /\ turn_pc \in {"member", "gather"}
    /\ task' = [id \in DOMAIN task |->
                  IF task[id] \in TaskLive THEN "cancelled" ELSE task[id]]
    /\ EndTurn("Cancelled")
    /\ UNCHANGED <<sideVars, edVars, loadVars, again, turn_output, from_member_id, found_source,
                   processed_members, started, yielded, fresh,
                   stop_requested, promoted>>

(***************************************************************************)
(* A second call of receive while a turn is Responding                     *)
(*                                                                         *)
(* receive looks at workflow.responding nowhere: a second call runs the    *)
(* same code on its own locals (kept in `again`) and on the same workflow. *)
(***************************************************************************)
AgainMember == members[again.loop_pos]

\* `finally`, for the second call
AgainEnd(how) ==
    /\ gen_members' = {}
    /\ responding' = FALSE
    /\ again' = [again EXCEPT !.pc = "idle", !.outcome = how, !.live = {}]

\* The two checks after a member or a group, for the second call
AgainAfterMember ==
    IF ~autorun THEN AgainEnd("Paused")
    ELSE IF AgainMember.type \in pause_on
              /\ AgainMember.member_id # again.from_member_id
         THEN AgainEnd("Paused")
         ELSE /\ again' = [again EXCEPT !.pc = "for", !.loop_pos = @ + 1,
                                        !.live = {}]
              /\ UNCHANGED <<gen_members, responding>>

\* receive is called again, up to the for loop
again_receive(f) ==
    /\ FirstCallSuspended
    /\ load_pc = "done"
    /\ responding
    /\ again.pc = "idle"
    /\ again.live = {}
    /\ gen_members' = {}
    /\ responding' = TRUE
    /\ again' = [pc |-> "for", from_member_id |-> f, found_source |-> FALSE,
                 processed_members |-> {}, loop_pos |-> 1, live |-> {},
                 started |-> <<>>, yielded |-> {}, outcome |-> "none"]
    /\ UNCHANGED <<sideVars, edVars, loadVars, turn_output, from_member_id, found_source,
                   processed_members, loop_pos, turn_pc, task, started, yielded,
                   turn_outcome, fresh, stop_requested, promoted>>

\* One pass of the for loop of the second call
again_for ==
    /\ FirstCallSuspended
    /\ again.pc = "for"
    /\ IF again.loop_pos > Len(members)
       THEN promote_final_message /\ AgainEnd("Completed")
       ELSE UNCHANGED promoted /\
            LET member_id == AgainMember.member_id
                found == \/ again.found_source
                         \/ member_id = again.from_member_id
                         \/ again.from_member_id = None
                group == get_member_async_group(member_id)
                group_tasks == group \ again.processed_members
            IN  IF ~found \/ member_id \in again.processed_members
                THEN /\ again' = [again EXCEPT !.found_source = found,
                                               !.loop_pos = @ + 1]
                     /\ UNCHANGED <<gen_members, responding>>
                ELSE IF group # {}
                THEN /\ gen_members' = group
                     /\ again' = [again EXCEPT
                                     !.found_source = found,
                                     !.processed_members = @ \cup group_tasks,
                                     !.live = group_tasks,
                                     !.started = Append(@, group_tasks),
                                     !.pc = "gather"]
                     /\ UNCHANGED responding
                ELSE /\ gen_members' = {member_id}
                     /\ again' = [again EXCEPT
                                     !.found_source = found,
                                     !.live = {member_id},
                                     !.started = Append(@, {member_id}),
                                     !.pc = "member"]
                     /\ UNCHANGED responding
    /\ UNCHANGED <<sideVars, edVars, loadVars, turn_output, from_member_id, found_source,
                   processed_members, loop_pos, turn_pc, task, started, yielded,
                   turn_outcome, fresh, stop_requested>>

\* The producer the second call drives hands out a chunk.
again_chunk(role) ==
    /\ FirstCallSuspended
    /\ again.pc = "member"
    /\ LET member_id == AgainMember.member_id
           filter_role == Lower(config.filter_role)
       IN  /\ next_expected_is_last_member
           /\ member_id = next_expected_member
           /\ (role = filter_role \/ filter_role = "all")
           /\ [member_id |-> member_id, role |-> role] \notin again.yielded
           /\ again' = [again EXCEPT
                           !.yielded = @ \cup {[member_id |-> member_id,
                                                role |-> role]}]
    /\ UNCHANGED <<sideVars, edVars, loadVars, turn_output, turnVars>>

\* A producer started by the second call stores its member's turn_output.
again_producer_output(member_id) ==
    /\ FirstCallSuspended
    /\ member_id \in again.live
    /\ MemberById(members, member_id).type # "node"
    /\ turn_output[member_id] = None
    /\ turn_output' = [turn_output EXCEPT ![member_id] = "out"]
    /\ UNCHANGED <<sideVars, edVars, loadVars, turnVars, again>>

\* The producer the second call drives runs out or hands out SKIP ...
again_member_ends ==
    /\ FirstCallSuspended
    /\ again.pc = "member"
    /\ AgainAfterMember
    /\ UNCHANGED <<sideVars, edVars, loadVars, turn_output, from_member_id, found_source,
                   processed_members, loop_pos, turn_pc, task, started, yielded,
                   turn_outcome, fresh, stop_requested, promoted>>

\* ... or raises.
again_member_raise ==
    /\ FirstCallSuspended
    /\ again.pc = "member"
    /\ AgainEnd("Failed")
    /\ UNCHANGED <<sideVars, edVars, loadVars, turn_output, from_member_id, found_source,
                   processed_members, loop_pos, turn_pc, task, started, yielded,
                   turn_outcome, fresh, stop_requested, promoted>>

\* A task of the second call's run_group runs out; with the last one
\* asyncio.gather returns.
again_group_task_finish(member_id) ==
    /\ FirstCallSuspended
    /\ again.pc = "gather"
    /\ member_id \in again.live
    /\ IF again.live = {member_id}
       THEN AgainAfterMember
       ELSE /\ again' = [again EXCEPT !.live = @ \ {member_id}]
            /\ UNCHANGED <<gen_members, responding>>
    /\ UNCHANGED <<sideVars, edVars, loadVars, turn_output, from_member_id, found_source,
                   processed_members, loop_pos, turn_pc, task, started, yielded,
                   turn_outcome, fresh, stop_requested, promoted>>

\* A task of the second call's run_group raises.
again_group_task_raise(member_id) ==
    /\ FirstCallSuspended
    /\ again.pc = "gather"
    /\ member_id \in again.live
    /\ AgainEnd("Failed")
    /\ UNCHANGED <<sideVars, edVars, loadVars, turn_output, from_member_id, found_source,
                   processed_members, loop_pos, turn_pc, task, started, yielded,
                   turn_outcome, fresh, stop_requested, promoted>>

(***************************************************************************)
(* The root-scoped attributes: context_id, chat_title, leaf_id and         *)
(* message_history are properties read through get_from_root and assigned  *)
(* by setters.                                                             *)
(***************************************************************************)
\* The chain: workflow 1 is the root, and workflow w > 1 has the parent w - 1
ChainDepth == 3
Chain == 1..ChainDepth
RootAttrs == {"_context_id", "_chat_title", "_leaf_id", "_message_history"}
AttrValues == {"a", "b"}
\* hasattr(self, attr_name) is false
Absent == "absent"

\* get_from_root as workflow w runs it, h being what each workflow holds
RECURSIVE get_from_root(_, _, _)
get_from_root(h, w, attr_name) ==
    IF h[w][attr_name] # Absent THEN h[w][attr_name]
    ELSE IF w = 1 THEN "AttributeError"       \* None has no get_from_root
    ELSE get_from_root(h, w - 1, attr_name)

\* The setters (`self._leaf_id = value` and the like) as workflow w runs them
set_root_attr(w, attr_name, value) ==
    /\ held' = [held EXCEPT ![w][attr_name] = value]
    /\ UNCHANGED <<mainVars, dbVars, msgVars, pathVars>>

\* After __init__: the root has assigned the four attributes, a nested
\* workflow none of them.
RootIdle ==
    held = [w \in Chain |-> [attr_name \in RootAttrs |->
                                IF w = 1 THEN "a" ELSE Absent]]


(***************************************************************************)
(* The contexts table: deactivate_all_branches_with_msg and                *)
(* activate_branch_with_msg                                                *)
(***************************************************************************)
NumContexts == 3
ContextIds == 1..NumContexts
\* Message m is a row of contexts_messages with context_id = m for m up to
\* NumContexts; the id NumContexts + 1 is in no row.
MsgIds == 1..(NumContexts + 1)
\* SQL's NULL; the ids of rows are positive
NULL == 0
\* The messages a context can have forked at, and NULL for a primary line
BranchMsgIds == {NULL, 1, 2}

\* SELECT context_id FROM contexts_messages WHERE id = ?
context_id_of(msg_id) == IF msg_id \in ContextIds THEN msg_id ELSE NULL

\* SELECT branch_msg_id FROM contexts WHERE id = (...)
branch_msg_id_of(contexts, msg_id) ==
    IF context_id_of(msg_id) = NULL THEN NULL
    ELSE contexts[context_id_of(msg_id)].branch_msg_id

\* `a = b` in a WHERE clause: not true when either side is NULL
SqlEquals(a, b) == a # NULL /\ b # NULL /\ a = b

\* Mutant: the statement of deactivate_all_branches_with_msg with the
\* context's own id in place of its branch_msg_id
deactivate_owner_only(contexts, msg_id) ==
    [c \in ContextIds |->
        IF SqlEquals(c, context_id_of(msg_id))
        THEN [contexts[c] EXCEPT !.active = FALSE] ELSE contexts[c]]

\* UPDATE contexts SET active = 0 WHERE branch_msg_id = (...)
deactivate_update(contexts, msg_id) ==
    [c \in ContextIds |->
        IF SqlEquals(contexts[c].branch_msg_id, branch_msg_id_of(contexts, msg_id))
        THEN [contexts[c] EXCEPT !.active = FALSE] ELSE contexts[c]]

\* UPDATE contexts SET active = 1 WHERE id = (...)
activate_update(contexts, msg_id) ==
    [c \in ContextIds |->
        IF SqlEquals(c, context_id_of(msg_id))
        THEN [contexts[c] EXCEPT !.active = TRUE] ELSE contexts[c]]

NoCall == [op |-> "none", msg_id |-> NULL]

deactivate_all_branches_with_msg(msg_id) ==
    /\ db' = [contexts |-> deactivate_update(db.contexts, msg_id),
              before |-> db.contexts,
              last |-> [op |-> "deactivate", msg_id |-> msg_id],
              previous |-> db.last]
    /\ UNCHANGED <<mainVars, rootVars, msgVars, pathVars>>

activate_branch_with_msg(msg_id) ==
    /\ db' = [contexts |-> activate_update(db.contexts, msg_id),
              before |-> db.contexts,
              last |-> [op |-> "activate", msg_id |-> msg_id],
              previous |-> db.last]
    /\ UNCHANGED <<mainVars, rootVars, msgVars, pathVars>>

\* The rows of contexts an operation can find: every combination of fork
\* points and active flags
ContextTables == [ContextIds -> [branch_msg_id : BranchMsgIds, active : BOOLEAN]]


(***************************************************************************)
(* Workflow.save_message                                                   *)
(***************************************************************************)
MaxMessages == 2
SaveRoles == {"user", "assistant", "output"}
\* The contents a caller hands over: empty, whitespace only, and text
Contents == {"", " ", "text"}
NoOutputText == "The code executed without any output"

\* str.strip on the contents above
strip(content) == IF content \in {"", " "} THEN "" ELSE content

\* `None not in [member.turn_output for member in self.get_members()]`
new_run(M, outputs) ==
    \A i \in 1..Len(get_members(M)) : outputs[get_members(M)[i].member_id] # None

\* Mutant: the test for empty content is left out
stored_content_unchecked(role, content) ==
    IF role = "output" /\ strip(content) = "" THEN NoOutputText ELSE content

\* The content save_message goes on with: the text put in place of an empty
\* 'output', and None (`return None`) for content that is empty after that
stored_content(role, content) ==
    LET normalised == IF role = "output" /\ strip(content) = ""
                      THEN NoOutputText ELSE content
    IN  IF normalised = "" THEN None ELSE normalised

\* save_message; message_history.add appends the message and returns its id
save_message(role, content) ==
    /\ load_pc = "done"
    /\ Len(message_history) < MaxMessages
    /\ LET stored == stored_content(role, content)
           toggles == new_run(members, turn_output)
       IN  IF stored = None
           THEN /\ last_save' = [role |-> role, content |-> content,
                                 outputs_before |-> turn_output,
                                 alt_before |-> alt_turn_state,
                                 history_before |-> message_history,
                                 returned |-> None]
                /\ UNCHANGED <<alt_turn_state, message_history>>
           ELSE /\ alt_turn_state' = IF toggles THEN 1 - alt_turn_state
                                     ELSE alt_turn_state
                /\ message_history' = Append(message_history, stored)
                /\ last_save' = [role |-> role, content |-> content,
                                 outputs_before |-> turn_output,
                                 alt_before |-> alt_turn_state,
                                 history_before |-> message_history,
                                 returned |-> "message id"]
    /\ UNCHANGED <<mainVars, rootVars, dbVars, pathVars>>


(***************************************************************************)
(* Workflow.get_member_by_full_member_id                                   *)
(*                                                                         *)
(* A full member id is a string, here a sequence of characters. A member   *)
(* is a record: a workflow has the mapping `members`, any other member     *)
(* (an agent) has no such attribute.                                       *)
(***************************************************************************)
MaxPathChars == 5
NestDepth == 3
IdChars == {"1", "2"}
PathChars == IdChars \cup {"."}
\* The ids members are stored under: one character each
LocalIds == {<<c>> : c \in IdChars}

SeqsUpTo(S, n) == UNION {[1..k -> S] : k \in 0..n}

FullMemberIds == SeqsUpTo(PathChars, MaxPathChars)

Agent == [kind |-> "agent", members |-> <<>>]

\* The members there can be under at most `depth` levels of workflows
RECURSIVE MembersNested(_)
MembersNested(depth) ==
    IF depth = 0 THEN {Agent}
    ELSE {Agent} \cup
         {[kind |-> "workflow", members |-> f] :
             f \in UNION {[ids -> MembersNested(depth - 1)] : ids \in SUBSET LocalIds}}

Workflows == {m \in MembersNested(NestDepth) : m.kind = "workflow"}

\* str.split('.')
RECURSIVE split(_)
split(s) ==
    IF \A i \in 1..Len(s) : s[i] # "." THEN <<s>>
    ELSE LET i == CHOOSE k \in 1..Len(s) :
                      s[k] = "." /\ \A j \in 1..(k - 1) : s[j] # "."
         IN  <<SubSeq(s, 1, i - 1)>> \o split(SubSeq(s, i + 1, Len(s)))

NoLookup == [outcome |-> "none", member |-> <<>>]
Returned(member) == [outcome |-> "member", member |-> member]
ReturnedNone == [outcome |-> "None", member |-> <<>>]
Raised(exception) == [outcome |-> exception, member |-> <<>>]

\* Mutant: the first segment alone is looked up
lookup_first_segment(workflow, member, full_split) ==
    IF Head(full_split) \notin DOMAIN workflow.members THEN ReturnedNone
    ELSE Returned(workflow.members[Head(full_split)])

\* The for loop over the segments. `workflow.members.get(local_id)` on a
\* member that is no workflow raises AttributeError.
RECURSIVE lookup_segments(_, _, _)
lookup_segments(workflow, member, full_split) ==
    IF full_split = <<>> THEN Returned(member)
    ELSE IF workflow.kind # "workflow" THEN Raised("AttributeError")
    ELSE IF Head(full_split) \notin DOMAIN workflow.members THEN ReturnedNone
    ELSE LET found == workflow.members[Head(full_split)]
         IN  lookup_segments(found, found, Tail(full_split))

\* The call self.get_member_by_full_member_id(full_member_id), for the
\* workflow and the id held in lookup
get_member_by_full_member_id ==
    /\ lookup.result = NoLookup
    /\ lookup.self.kind = "workflow"
    /\ lookup' = [lookup EXCEPT
                     !.result = lookup_segments(lookup.self, Agent,
                                                split(lookup.full_member_id))]
    /\ UNCHANGED <<mainVars, rootVars, dbVars, msgVars>>


(***************************************************************************)
(* Specifications                                                          *)
(***************************************************************************)
\* Nothing was done on the tables, the history or a full member id
DbIdle == db = <<>>
NoSave ==
    [role |-> None, content |-> None, outputs_before |-> <<>>, alt_before |-> 0,
     history_before |-> <<>>, returned |-> None]
MsgIdle == alt_turn_state = 0 /\ message_history = <<>> /\ last_save = NoSave
PathIdle ==
    lookup = [self |-> Agent, full_member_id |-> <<>>, result |-> NoLookup]
SideIdle == RootIdle /\ DbIdle /\ MsgIdle /\ PathIdle

EditIdle ==
    /\ members_in_view = ViewIds
    /\ lines = <<>>
    /\ new_line = <<>>
    /\ ed_last = [op |-> "init", member_id |-> "1", input_member_id |-> "1",
                  looper |-> FALSE, outcome |-> "init"]

\* Workflow.__init__ up to its call of load.
LoadIdle(cfg) ==
    /\ config = cfg
    /\ members = <<>>
    /\ boxes = <<>>
    /\ pending = <<>>
    /\ iter_pos = 0
    /\ current_box_member_ids = {}
    /\ last_member_id = None
    /\ last_loc_x = InitialLastLocX
    /\ load_pc = "idle"
    /\ autorun = TRUE
    /\ load_history = <<>>
    /\ turn_output = <<>>

\* No second call of receive has been made.
AgainIdle ==
    [pc |-> "idle", from_member_id |-> None, found_source |-> FALSE,
     processed_members |-> {}, loop_pos |-> 0, live |-> {}, started |-> <<>>,
     yielded |-> {}, outcome |-> "none"]

\* WorkflowBehaviour.__init__ and the attributes Workflow.__init__ gives the
\* engine: no turn is running.
TurnIdle ==
    /\ responding = FALSE
    /\ gen_members = {}
    /\ from_member_id = None
    /\ found_source = FALSE
    /\ processed_members = {}
    /\ loop_pos = 0
    /\ turn_pc = "idle"
    /\ task = [id \in MemberIdsOf(members) |-> "none"]
    /\ started = <<>>
    /\ yielded = {}
    /\ turn_outcome = "none"
    /\ fresh = TRUE
    /\ stop_requested = FALSE
    /\ promoted = NotPromoted
    /\ again = AgainIdle

EmptyConfig ==
    [_TYPE |-> "workflow", members |-> <<>>, inputs |-> {}, autorun |-> TRUE,
     filter_role |-> "All",
     parent_workflow |-> FALSE, main |-> TRUE]

InitEdit == EditIdle /\ LoadIdle(EmptyConfig) /\ TurnIdle /\ SideIdle

NextEdit ==
    \/ \E m \in ViewIds : start_line(m)
    \/ \E m \in ViewIds \cup {None} : updateEndPoint(m)
    \/ \E m \in ViewIds : add_input(m)
    \/ cancel_new_line

SpecEdit == InitEdit /\ [][NextEdit]_vars

\* The editor with every operation on edges: lines are drawn and added,
\* their loop flag is edited, and members and lines are deleted (the
\* selections of at most one member and at most one line; larger selections
\* delete what a sequence of these deletes).
NextEditOps ==
    \/ \E m \in ViewIds : start_line(m)
    \/ \E m \in ViewIds \cup {None} : updateEndPoint(m)
    \/ \E m \in ViewIds : add_input(m)
    \/ cancel_new_line
    \/ \E input_key \in DOMAIN lines, is_looper \in BOOLEAN :
          InputSettings_save_config(input_key, is_looper)
    \/ \E selected_members \in {{}} \cup {{m} : m \in members_in_view},
          selected_lines \in {{}} \cup {{k} : k \in DOMAIN lines},
          confirmed \in BOOLEAN :
          delete_selected_items(selected_members, selected_lines, confirmed)

\* The editor showing three members and no line
InitEditOps ==
    /\ members_in_view = CfgIds
    /\ lines = <<>>
    /\ new_line = <<>>
    /\ ed_last = [op |-> "init", member_id |-> "1", input_member_id |-> "1",
                  looper |-> FALSE, outcome |-> "init"]
    /\ LoadIdle(EmptyConfig) /\ TurnIdle /\ SideIdle

SpecEditOps == InitEditOps /\ [][NextEditOps]_vars

InitLoad == EditIdle /\ (\E cfg \in Configs : LoadIdle(cfg)) /\ TurnIdle /\ SideIdle

NextLoad == load_begin \/ load_iterate \/ load_finish

SpecLoad == InitLoad /\ [][NextLoad]_vars

\* The configurations whose participants are all agents: the while loop
\* reads only ids, positions and inputs.
AgentConfigs ==
    {cfg \in Configs : \A i \in 1..Len(cfg.members) : cfg.members[i].type = "agent"}

InitLoadAgents == EditIdle /\ (\E cfg \in AgentConfigs : LoadIdle(cfg)) /\ TurnIdle /\ SideIdle

\* The while loop is sequential code: it always takes its next step.
FairSpecLoadAgents == InitLoadAgents /\ [][NextLoad]_vars /\ WF_vars(NextLoad)

\* The workflow of the scenario: U (user, 0), A and B (agents, 100, each
\* with the input U) and C (agent, 200, with the inputs A and B).
ScenarioConfig ==
    [_TYPE |-> "workflow",
     members |-> <<[id |-> "1", type |-> "user", loc_x |-> 0],
                   [id |-> "2", type |-> "agent", loc_x |-> 100],
                   [id |-> "3", type |-> "agent", loc_x |-> 100],
                   [id |-> "4", type |-> "agent", loc_x |-> 200]>>,
     inputs |-> {[member_id |-> "2", input_member_id |-> "1", looper |-> FALSE],
                 [member_id |-> "3", input_member_id |-> "1", looper |-> FALSE],
                 [member_id |-> "4", input_member_id |-> "2", looper |-> FALSE],
                 [member_id |-> "4", input_member_id |-> "3", looper |-> FALSE]},
     autorun |-> TRUE, filter_role |-> "All",
     parent_workflow |-> FALSE, main |-> TRUE]

\* The member lists turns are run on: two positions are enough to put
\* neighbours in a box or not.
TurnLocXs == {0, 12}

TurnMemberLists ==
    {M \in MemberLists : \A i \in 1..Len(M) : M[i].loc_x \in TurnLocXs}

\* The workflows turns are run on: these member lists without inputs, with
\* either value of autorun and of filter_role, and the scenario.
TurnConfigs ==
    {cfg \in [_TYPE : {"workflow"}, members : TurnMemberLists, inputs : {{}},
              autorun : BOOLEAN, filter_role : {"All", "assistant"},
              parent_workflow : {FALSE}, main : {TRUE}]
                 \cup {ScenarioConfig} :
        load_members(cfg).load_pc = "done"}

\* Workflow.__init__ with its call of load.
Loaded(cfg) ==
    LET s == load_members(cfg)
    IN  /\ config = cfg
        /\ members = s.members
        /\ boxes = s.boxes
        /\ pending = s.pending
        /\ iter_pos = s.iter_pos
        /\ current_box_member_ids = s.current_box_member_ids
        /\ last_member_id = s.last_member_id
        /\ last_loc_x = s.last_loc_x
        /\ load_pc = s.load_pc
        /\ autorun = cfg.autorun
        /\ load_history = <<Built(s)>>
        /\ turn_output = FreshOutputs(s.members)

InitTurn == EditIdle /\ (\E cfg \in TurnConfigs : Loaded(cfg)) /\ TurnIdle /\ SideIdle

NextTurn ==
    \/ \E f \in MemberIdsOf(members) \cup {None} : receive(f)
    \/ turn_for
    \/ \E role \in Roles : member_chunk(role)
    \/ \E member_id \in MemberIdsOf(members) : producer_output(member_id)
    \/ member_skip
    \/ member_finish
    \/ member_raise
    \/ \E member_id \in MemberIdsOf(members) : group_task_finish(member_id)
    \/ \E member_id \in MemberIdsOf(members) : group_task_raise(member_id)
    \/ gather_done
    \/ stop
    \/ \E member_id \in MemberIdsOf(members) : task_cancelled(member_id)
    \/ cancel_turn
    \/ reset_last_outputs

SpecTurn == InitTurn /\ [][NextTurn]_vars

\* Overlapping calls of receive, on the workflows of at most two members
\* with the filter 'All'; nobody stops or cancels a call.
OverlapConfigs ==
    {cfg \in TurnConfigs : Len(cfg.members) <= 2 /\ cfg.filter_role = "All"}

InitOverlap == EditIdle /\ (\E cfg \in OverlapConfigs : Loaded(cfg)) /\ TurnIdle /\ SideIdle

NextOverlap ==
    \/ \E f \in MemberIdsOf(members) \cup {None} : receive(f)
    \/ turn_for
    \/ \E role \in Roles : member_chunk(role)
    \/ \E member_id \in MemberIdsOf(members) : producer_output(member_id)
    \/ member_skip
    \/ member_finish
    \/ member_raise
    \/ \E member_id \in MemberIdsOf(members) : group_task_finish(member_id)
    \/ \E member_id \in MemberIdsOf(members) : group_task_raise(member_id)
    \/ gather_done
    \/ \E f \in MemberIdsOf(members) \cup {None} : again_receive(f)
    \/ again_for
    \/ \E role \in Roles : again_chunk(role)
    \/ \E member_id \in MemberIdsOf(members) : again_producer_output(member_id)
    \/ again_member_ends
    \/ again_member_raise
    \/ \E member_id \in MemberIdsOf(members) : again_group_task_finish(member_id)
    \/ \E member_id \in MemberIdsOf(members) : again_group_task_raise(member_id)

SpecOverlap == InitOverlap /\ [][NextOverlap]_vars

\* Turns of workflows with inputs: every loadable workflow over the turn
\* member lists that are listed from left to right, with up to MaxInputs
\* inputs, run on (autorun) from any participant; producers finish or skip.
DependencyMemberLists ==
    {M \in TurnMemberLists : \A i \in 1..(Len(M) - 1) : M[i].loc_x <= M[i + 1].loc_x}

DependencyConfigs ==
    {cfg \in [_TYPE : {"workflow"}, members : DependencyMemberLists, inputs : InputSets,
              autorun : {TRUE}, filter_role : {"All"},
              parent_workflow : {FALSE}, main : {TRUE}] :
        load_members(cfg).load_pc = "done"}

InitTurnInputs ==
    EditIdle /\ (\E cfg \in DependencyConfigs : Loaded(cfg)) /\ TurnIdle /\ SideIdle

NextTurnInputs ==
    \/ \E f \in MemberIdsOf(members) \cup {None} : receive(f)
    \/ turn_for
    \/ member_skip
    \/ member_finish
    \/ \E member_id \in MemberIdsOf(members) : group_task_finish(member_id)
    \/ gather_done

SpecTurnInputs == InitTurnInputs /\ [][NextTurnInputs]_vars

\* Turns whose producers all end: the workflows without inputs with the
\* filter 'All', every starting participant, with stop and cancellation.
\* The event loop runs every step of receive that is ready, and every
\* producer that was started runs out, skips, raises or sees its
\* cancellation.
EndingConfigs == {cfg \in TurnConfigs : cfg.filter_role = "All"}

InitTurnEnds ==
    EditIdle /\ (\E cfg \in EndingConfigs : Loaded(cfg)) /\ TurnIdle /\ SideIdle

NextTurnEnds ==
    \/ \E f \in MemberIdsOf(members) \cup {None} : receive(f)
    \/ turn_for
    \/ member_skip
    \/ member_finish
    \/ member_raise
    \/ \E member_id \in MemberIdsOf(members) : group_task_finish(member_id)
    \/ \E member_id \in MemberIdsOf(members) : group_task_raise(member_id)
    \/ gather_done
    \/ stop
    \/ \E member_id \in MemberIdsOf(members) : task_cancelled(member_id)
    \/ cancel_turn

ProducerEnds(member_id) ==
    /\ member_id \in DOMAIN task
    /\ \/ group_task_finish(member_id)
       \/ group_task_raise(member_id)
       \/ task_cancelled(member_id)

FairSpecTurnEnds ==
    /\ InitTurnEnds
    /\ [][NextTurnEnds]_vars
    /\ WF_vars(turn_for)
    /\ WF_vars(gather_done)
    /\ WF_vars(member_skip \/ member_finish \/ member_raise)
    /\ \A member_id \in SeqToSet(IdNames) : WF_vars(ProducerEnds(member_id))

\* Assignments of the root-scoped attributes through the workflows of a
\* chain
InitRoot ==
    /\ EditIdle /\ LoadIdle(EmptyConfig) /\ TurnIdle
    /\ RootIdle /\ DbIdle /\ MsgIdle /\ PathIdle

NextRoot ==
    \E w \in Chain, attr_name \in RootAttrs, value \in AttrValues :
        set_root_attr(w, attr_name, value)

SpecRoot == InitRoot /\ [][NextRoot]_vars

\* Activations and deactivations of branches, from every table of contexts
InitDb ==
    /\ EditIdle /\ LoadIdle(EmptyConfig) /\ TurnIdle
    /\ RootIdle /\ MsgIdle /\ PathIdle
    /\ \E contexts \in ContextTables :
          db = [contexts |-> contexts, before |-> contexts,
                last |-> NoCall, previous |-> NoCall]

NextDb ==
    \/ \E msg_id \in MsgIds : deactivate_all_branches_with_msg(msg_id)
    \/ \E msg_id \in MsgIds : activate_branch_with_msg(msg_id)

SpecDb == InitDb /\ [][NextDb]_vars

\* Messages saved before, during and after the turns of the workflows of at
\* most two members that run on
SaveConfigs == {cfg \in OverlapConfigs : cfg.autorun}

InitSave == EditIdle /\ (\E cfg \in SaveConfigs : Loaded(cfg)) /\ TurnIdle /\ SideIdle

NextSave ==
    \/ \E f \in MemberIdsOf(members) \cup {None} : receive(f)
    \/ turn_for
    \/ \E member_id \in MemberIdsOf(members) : producer_output(member_id)
    \/ member_finish
    \/ \E member_id \in MemberIdsOf(members) : group_task_finish(member_id)
    \/ gather_done
    \/ reset_last_outputs
    \/ \E role \in SaveRoles, content \in Contents : save_message(role, content)

SpecSave == InitSave /\ [][NextSave]_vars

\* The lookup of every full member id in every nesting of workflows within
\* the bounds
InitPath ==
    /\ EditIdle /\ LoadIdle(EmptyConfig) /\ TurnIdle
    /\ RootIdle /\ DbIdle /\ MsgIdle
    /\ \E self \in Workflows, full_member_id \in FullMemberIds :
          lookup = [self |-> self, full_member_id |-> full_member_id,
                    result |-> NoLookup]

NextPath == get_member_by_full_member_id

SpecPath == InitPath /\ [][NextPath]_vars

\* Loads of participants of a known and of an unknown kind, all at one
\* position
KindMemberLists ==
    UNION {{[i \in 1..n |-> [id |-> IdNames[i], type |-> t[i], loc_x |-> 0]] :
                t \in [1..n -> {"agent", "contact"}]} :
           n \in 1..Cardinality(CfgIds)}

KindConfigs ==
    [_TYPE : {"workflow"}, members : KindMemberLists, inputs : InputSets,
     autorun : {TRUE}, filter_role : {"All"},
     parent_workflow : {FALSE}, main : {TRUE}]

InitLoadKinds == EditIdle /\ (\E cfg \in KindConfigs : LoadIdle(cfg)) /\ TurnIdle /\ SideIdle

SpecLoadKinds == InitLoadKinds /\ [][NextLoad]_vars

\* Loads that look at the boxes: participants of every kind load_members
\* knows, at positions near and far from one another and from the initial
\* last_loc_x, with at most one input
BoxKinds == {"agent", "workflow", "block", "node", "user"}
BoxLocXs == {-95, 0, 5, 20}

BoxMemberLists ==
    UNION {{[i \in 1..n |-> [id |-> IdNames[i], type |-> t[i], loc_x |-> x[i]]] :
                t \in [1..n -> BoxKinds], x \in [1..n -> BoxLocXs]} :
           n \in 1..Cardinality(CfgIds)}

BoxConfigs ==
    [_TYPE : {"workflow"}, members : BoxMemberLists,
     inputs : SubsetsUpTo(InputDicts, 1),
     autorun : {TRUE}, filter_role : {"All"},
     parent_workflow : {FALSE}, main : {TRUE}]

InitLoadBoxes == EditIdle /\ (\E cfg \in BoxConfigs : LoadIdle(cfg)) /\ TurnIdle /\ SideIdle

SpecLoadBoxes == InitLoadBoxes /\ [][NextLoad]_vars

\* A single participant as the document: its config, of each kind ('contact'
\* is a kind load_members does not know) and without '_TYPE'
SingleKinds == {"agent", "user", "block", "node", "contact"}

SingleConfigs ==
    [_TYPE : SingleKinds, autorun : {TRUE}, filter_role : {"All"},
     parent_workflow : {FALSE}, main : {TRUE}]
        \cup {[autorun |-> TRUE, filter_role |-> "All",
               parent_workflow |-> FALSE, main |-> TRUE]}

\* The documents loaded: the single participants, and the workflow documents
\* without inputs
Documents == SingleConfigs \cup {cfg \in Configs : cfg.inputs = {}}

InitDocument == EditIdle /\ (\E cfg \in Documents : LoadIdle(cfg)) /\ TurnIdle /\ SideIdle

SpecDocument == InitDocument /\ [][NextLoad]_vars

\* Turns of nested and of root workflows, with and without a main object:
\* the workflows of at most two members with the filter 'All'.
NestedConfigs ==
    {[cfg EXCEPT !.parent_workflow = parent_workflow, !.main = main] :
        cfg \in OverlapConfigs, parent_workflow \in BOOLEAN, main \in BOOLEAN}

InitNested == EditIdle /\ (\E cfg \in NestedConfigs : Loaded(cfg)) /\ TurnIdle /\ SideIdle

SpecNested == InitNested /\ [][NextTurn]_vars

\* Turns asked from an id that no participant has, besides those asked
\* from a participant or from None, on nested and root workflows
UnknownMemberId == "9"

NextTurnAnyFrom ==
    \/ receive(UnknownMemberId)
    \/ NextTurn

SpecTurnAnyFrom == InitNested /\ [][NextTurnAnyFrom]_vars

\* What the configuration says, for the claims.
ConfigIds(cfg) == {cfg.members[i].id : i \in 1..Len(cfg.members)}
NonLoopInputs(cfg) == {<<inp.member_id, inp.input_member_id>> :
                          inp \in {x \in cfg.inputs : ~x.looper}}
\* the input edges of the instantiated members (member.inputs)
MemberInputs(M) ==
    UNION {{<<M[i].member_id, inp>> : inp \in M[i].inputs} : i \in 1..Len(M)}
InputsNameMembers(cfg) ==
    \A inp \in cfg.inputs : {inp.member_id, inp.input_member_id} \subseteq ConfigIds(cfg)

(***************************************************************************)
(* Claims                                                                  *)
(***************************************************************************)

\* C1: when the non-loop inputs of the configuration are acyclic and every
\* input names listed participants, load_members leaves its while loop and
\* ends, and self.members then holds every listed participant exactly once.
EveryParticipantOnce ==
    /\ Len(members) = Len(config.members)
    /\ MemberIdsOf(members) = ConfigIds(config)
    /\ pending = <<>>

C1_Loadable ==
    Acyclic(NonLoopInputs(config)) /\ InputsNameMembers(config)

C2_NoDependencyInsideBox ==
    load_pc = "done" =>
        \A i \in 1..Len(boxes) : \A m \in boxes[i], n \in boxes[i] :
            m # n => ~Reaches(MemberInputs(members), m, n)

\* C2 witness: a box of two members is left whose members have inputs, one
\* of them flagged as a loop edge between the two.
C2_Witness ==
    /\ load_pc = "done"
    /\ \E i \in 1..Len(boxes) :
          /\ Cardinality(boxes[i]) >= 2
          /\ \E m \in boxes[i] : MemberById(members, m).inputs # {}
          /\ \E inp \in config.inputs :
                inp.looper /\ {inp.member_id, inp.input_member_id} \subseteq boxes[i]

\* C3: over non-loop lines that are acyclic, for every target T and source S
\* check_for_circular_references(T, [S]) returns true exactly when T is
\* reached from S over one or more non-loop lines; loop-flagged lines are
\* never followed.
C3_CircularCheckIsNonLoopReachability ==
    Acyclic(NonLoopLines(lines)) =>
        \A T \in members_in_view, S \in members_in_view :
            LET r == check_for_circular_references(lines, T, {S})
            IN  /\ ~r.raised
                /\ r.ret <=> Reaches(NonLoopLines(lines), S, T)

\* C3 witness: the check finds a target two or more lines away, and denies
\* a target that only a loop-flagged line leads to.
C3_Witness ==
    /\ Acyclic(NonLoopLines(lines))
    /\ \E T \in members_in_view, S \in members_in_view :
          /\ check_for_circular_references(lines, T, {S}).ret
          /\ <<S, T>> \notin DOMAIN lines
    /\ \E T \in members_in_view, S \in members_in_view :
          /\ ~check_for_circular_references(lines, T, {S}).ret
          /\ Reaches(DOMAIN lines, S, T)

\* C4: add_input of an edge (target, source) not flagged as a loop edge,
\* whose source already depends on the target over non-loop lines, adds
\* nothing: the lines and the members are what they were before the call
\* (the warning is shown, unless that very line exists already).
C4_RejectedEdgeLeavesWorkflow ==
    [][\A m \in ViewIds :
         (/\ new_line # <<>>
          /\ ~new_line[1].looper
          /\ Reaches(NonLoopLines(lines), new_line[1].input_member_id, m)
          /\ add_input(m))
         => /\ lines' = lines
            /\ members_in_view' = members_in_view
            /\ ed_last'.outcome \in {"rejected", "ignored_exists"}]_vars

\* C4 witness: add_input has rejected an edge whose source depends on the
\* target through another member.
C4_Witness ==
    /\ ed_last.op = "add_input"
    /\ ed_last.outcome = "rejected"
    /\ ~ed_last.looper
    /\ <<ed_last.input_member_id, ed_last.member_id>> \notin DOMAIN lines
    /\ Reaches(NonLoopLines(lines), ed_last.input_member_id, ed_last.member_id)

UnsetPositions == {i \in 1..Len(members) : turn_output[members[i].member_id] = None}

\* ... and of those among them that are not structural nodes
UnsetNonNodePositions == {i \in UnsetPositions : members[i].type # "node"}

FirstOf(positions) == CHOOSE i \in positions : \A j \in positions : i <= j

\* C6 as stated: next_expected_member returns none iff every participant's
\* turn_output is set; otherwise it returns the participant earliest in
\* stored order among those whose turn_output is unset.
C6_NextExpectedOverAllMembers ==
    load_pc = "done" =>
        /\ (next_expected_member = None) <=> (UnsetPositions = {})
        /\ UnsetPositions # {} =>
               next_expected_member = members[FirstOf(UnsetPositions)].member_id

\* C6, amended: next_expected_member returns none iff every participant
\* other than the structural nodes has its turn_output set; otherwise it
\* returns the participant earliest in stored order among the participants,
\* other than structural nodes, whose turn_output is unset.
C6_NextExpectedOverNonNodes ==
    load_pc = "done" =>
        /\ (next_expected_member = None) <=> (UnsetNonNodePositions = {})
        /\ UnsetNonNodePositions # {} =>
               next_expected_member = members[FirstOf(UnsetNonNodePositions)].member_id

\* A turn has stored the output of every member but a structural node, and
\* no member is expected next.
C6_Witness ==
    /\ load_pc = "done"
    /\ UnsetPositions # {}
    /\ UnsetNonNodePositions = {}
    /\ \E i \in 1..Len(members) : turn_output[members[i].member_id] # None
    /\ next_expected_member = None

IsPrefix(q, r) == Len(q) <= Len(r) /\ \A k \in 1..Len(q) : q[k] = r[k]

\* C7: for the workflow U (user, 0), A and B (agents, 100, input U) and
\* C (agent, 200, inputs A and B), load produces exactly the one group
\* {A, B}; a turn from the start runs U first, then A and B together, then C
\* only after A and B have both finished; and every pair yielded to the
\* caller of a turn begun with no output stored was produced by C.
C7_ScenarioGroupOrderAndYield ==
    config = ScenarioConfig =>
        /\ boxes = <<{"2", "3"}>>
        /\ from_member_id \in {None, "1"} =>
               /\ IsPrefix(started, <<{"1"}, {"2", "3"}, {"4"}>>)
               /\ Len(started) >= 2 => task["1"] \in TaskEnded
               /\ Len(started) >= 3 => (task["2"] = "done" /\ task["3"] = "done")
        /\ fresh => \A y \in yielded : y.member_id = "4"

\* The turn from U has run U, then A and B, then C to the end, and C's
\* chunks have been yielded.
C7_Witness ==
    /\ config = ScenarioConfig
    /\ from_member_id = "1"
    /\ fresh
    /\ started = <<{"1"}, {"2", "3"}, {"4"}>>
    /\ turn_outcome = "Completed"
    /\ [member_id |-> "4", role |-> "assistant"] \in yielded

\* The members whose producers this step starts
NewlyStarted ==
    IF Len(started') > Len(started) THEN started'[Len(started')] ELSE {}

SameGroup(p, q) == \E i \in 1..Len(boxes) : {p, q} \subseteq boxes[i]

Precedes(q, p) == IndexOf(members, q) < IndexOf(members, p)

\* q is not before the member the turn was asked from
NotBeforeSource(q) ==
    \/ from_member_id = None
    \/ /\ from_member_id \in MemberIdsOf(members)
       /\ ~Precedes(q, from_member_id)

\* C8: whenever a participant p is started, every participant that
\* precedes p in stored order, is not before the starting participant and
\* is not in p's group has already finished; and no member of a group p is
\* not in is still running.
C8_StartedInStoredOrder ==
    [][\A p \in NewlyStarted :
          /\ \A q \in MemberIdsOf(members) :
                 (Precedes(q, p) /\ NotBeforeSource(q) /\ ~SameGroup(p, q))
                     => task[q] \in TaskEnded
          /\ \A i \in 1..Len(boxes) :
                 p \notin boxes[i] => \A g \in boxes[i] : task[g] # "running"]_vars

\* C9: in a turn asked from an existing participant, no participant that
\* precedes it in stored order has its producer started.
C9_NothingBeforeSourceStarted ==
    (load_pc = "done" /\ from_member_id \in MemberIdsOf(members)) =>
        \A k \in 1..Len(started) : \A p \in started[k] :
            ~Precedes(p, from_member_id)

\* The steps of receive that look at from_member_id, for a turn asked from f
TurnStepFrom(f) ==
    \/ turn_for_from(f)
    \/ member_skip_from(f)
    \/ member_finish_from(f)
    \/ gather_done_from(f)

\* C10: a turn asked with from_member_id unset goes on as the turn asked
\* from the first participant in stored order does: each of its steps is the
\* step that turn takes from the same state, so it starts the same
\* participants in the same order and ends the same way.
C10_UnsetFromIsFirstMember ==
    [][(from_member_id = None /\ TurnStepFrom(None))
           => TurnStepFrom(members[1].member_id)]_vars

\* The steps of receive at which a member, or the group it stands for, has
\* just completed
MemberCompletes == member_skip \/ member_finish \/ gather_done

\* The members started so far in the turn
StartedMembers(batches) == UNION {batches[k] : k \in 1..Len(batches)}

\* C11: when a participant of a pause-designated kind that is not the
\* initiating participant has just completed, the turn ends as Paused and no
\* participant ordered after it has been started in that turn; a
\* pause-designated participant that is the initiating participant does not
\* end the turn this way.
C11_PauseAfterOtherPauseMember ==
    [][(MemberCompletes /\ LoopMember.type \in pause_on) =>
          IF LoopMember.member_id # from_member_id
          THEN /\ turn_outcome' = "Paused"
               /\ turn_pc' = "idle"
               /\ \A p \in StartedMembers(started') :
                      ~Precedes(LoopMember.member_id, p)
          ELSE autorun => (turn_pc' = "for" /\ turn_outcome' # "Paused")]_vars

\* One traversal step: one member without a box, or all members of a box
IsTraversalStep(batch) ==
    \/ \E p \in batch : batch = {p} /\ get_member_async_group(p) = {}
    \/ \E i \in 1..Len(boxes) : batch = boxes[i]

\* C12: with autorun false a turn starts the producers of exactly one
\* traversal step (one member without a group, or all members of one group)
\* and, once that step has completed, ends as Paused, wherever the step lies
\* in the order; it never runs past the last participant.
C12_AutorunOffOneStepThenPaused ==
    [][~autorun =>
          /\ Len(started') <= 1
          /\ \A k \in 1..Len(started') : IsTraversalStep(started'[k])
          /\ turn_outcome' # "Completed"
          /\ turn_outcome' = "Paused" =>
                 /\ Len(started') = 1
                 /\ \A p \in started'[1] : task'[p] \in TaskEnded
          /\ MemberCompletes => turn_outcome' = "Paused"]_vars

\* With autorun false a turn asked from a later member has run that member's
\* whole group and ended as Paused.
C12_Witness ==
    /\ ~autorun
    /\ turn_outcome = "Paused"
    /\ loop_pos > 1
    /\ Len(started) = 1
    /\ Cardinality(started[1]) = 2

\* What C13 says of a step that yields a pair, given the positions that
\* count as still unset at the moment of the yield
YieldsOnlyFromLastPending(unset) ==
    /\ yielded' # yielded =>
          \/ yielded' = {}                              \* a new turn begins
          \/ \E y \in yielded' \ yielded :
                /\ yielded' = yielded \cup {y}
                /\ turn_pc = "member"
                /\ y.member_id = LoopMember.member_id
                /\ task[y.member_id] = "running"
                /\ get_member_async_group(y.member_id) = {}
                /\ next_expected_member = y.member_id
                /\ unset = {IndexOf(members, y.member_id)}
                /\ y.role \in Roles
                /\ (y.role = Lower(config.filter_role)
                        \/ Lower(config.filter_role) = "all")
    /\ turn_pc = "gather" => yielded' = yielded
    /\ member_skip => yielded' = yielded

\* C13 as stated: every pair yielded to the caller was emitted by a
\* participant that has no concurrency group, that at the moment of the
\* yield is the next expected participant and the only participant whose
\* turn_output is still unset, and whose role equals the filter role or the
\* filter is 'all'; chunks of group members and the skip marker are never
\* yielded.
C13_YieldOnlyUnsetOfAllMembers ==
    [][YieldsOnlyFromLastPending(UnsetPositions)]_vars

\* C13, amended: as stated, with "the only participant whose turn_output is
\* still unset" read among the participants other than structural nodes.
C13_YieldOnlyUnsetOfNonNodes ==
    [][YieldsOnlyFromLastPending(UnsetNonNodePositions)]_vars

\* In a workflow with a structural node and the filter role 'assistant',
\* the member driven has had a chunk yielded.
C13_Witness ==
    /\ turn_pc = "member"
    /\ config.filter_role = "assistant"
    /\ \E i \in 1..Len(members) : members[i].type = "node"
    /\ [member_id |-> LoopMember.member_id, role |-> "assistant"] \in yielded

\* The ways a turn ends
TurnEnds == {"Completed", "Paused", "Cancelled", "Failed"}

\* C14: on every way a turn can end (past the last participant, paused,
\* cancelled, or failed with a producer's exception) the workflow afterwards
\* has gen_members empty and responding false.
C14_CleanupOnEveryExit ==
    /\ turn_outcome \in TurnEnds => (gen_members = {} /\ responding = FALSE)
    /\ (turn_pc # "idle") => (responding /\ turn_outcome = "none")

\* A task of a group raised while another member of the group was still
\* running: the turn has failed, and the bookkeeping is cleared.
C14_Witness ==
    /\ turn_outcome = "Failed"
    /\ \E id \in DOMAIN task : task[id] = "raised"
    /\ \E id \in DOMAIN task : task[id] = "running"
    /\ gen_members = {}
    /\ responding = FALSE

\* The steps at which a cancellation reaches receive
CancellationArrives ==
    \/ cancel_turn
    \/ /\ turn_pc \in {"member", "gather"}
       /\ \E member_id \in MemberIdsOf(members) : task_cancelled(member_id)

\* C15: a cancellation arriving while a turn is Responding, during a member
\* without a group or during a group, ends the turn as Cancelled with no
\* exception for the caller, and afterwards the engine state has its idle
\* values: gen_members empty, responding false, stop_requested false.
C15_CancellationResetsEngine ==
    [][CancellationArrives =>
          /\ turn_outcome' = "Cancelled"
          /\ turn_pc' = "idle"
          /\ gen_members' = {}
          /\ responding' = FALSE
          /\ stop_requested' = FALSE]_vars

\* The steps at which a producer receive is waiting on raises
ProducerRaisesInTurn ==
    \/ member_raise
    \/ /\ turn_pc = "gather"
       /\ \E member_id \in MemberIdsOf(members) : group_task_raise(member_id)

\* C16: an exception other than cancellation raised by a producer receive
\* waits on, whether the participant runs alone or as a member of a group,
\* ends the turn at once as Failed (the exception is the caller's); the
\* engine does not swallow it, starts no participant a second time, and
\* starts no later participant.
C16_ProducerErrorReachesCaller ==
    [][/\ ProducerRaisesInTurn =>
             /\ turn_outcome' = "Failed"
             /\ turn_pc' = "idle"
             /\ started' = started
       /\ turn_outcome' = "Failed" =>
             \E p \in StartedMembers(started') : task'[p] = "raised"
       /\ (turn_outcome = "Failed" /\ turn_outcome' = "Failed") =>
             started' = started
       /\ \A j \in 1..Len(started'), k \in 1..Len(started') :
             j # k => started'[j] \cap started'[k] = {}]_vars

\* A member of a group has raised, the turn has failed, and a participant
\* ordered after the group was never started.
C16_Witness ==
    /\ turn_outcome = "Failed"
    /\ \E p \in DOMAIN task :
          /\ task[p] = "raised"
          /\ get_member_async_group(p) # {}
          /\ \E q \in DOMAIN task : Precedes(p, q) /\ task[q] = "none"

\* C17: after stop() is called while a turn is Responding, stop_requested is
\* set, and when the turn then ends as Cancelled no task of the turn is
\* still live: each one, the tasks created for the members of a running
\* group included, has been cancelled by then.
C17_StopCancelsEveryLiveTask ==
    [][/\ stop => stop_requested'
       /\ (stop_requested' /\ turn_outcome' = "Cancelled" /\ turn_pc # "idle") =>
             \A p \in StartedMembers(started') : task'[p] \notin TaskLive]_vars

\* C18: when a task of a group raises, the exception ends the turn and no
\* other member of the group commits afterwards: once the turn has failed no
\* task of the group keeps running and none sets its turn_output.
C18_NoCommitAfterGroupFailure ==
    [][(turn_outcome = "Failed" /\ turn_pc = "idle") =>
          /\ \A p \in StartedMembers(started) : task[p] \notin TaskLive
          /\ \A p \in StartedMembers(started) :
                 turn_output'[p] = turn_output[p] \/ turn_output'[p] = None]_vars

\* C19: at most one turn is Responding at a time: a turn asked through
\* receive while workflow.responding is true starts no participant until the
\* earlier turn has ended.
C19_NoStartWhileEarlierTurnResponding ==
    turn_pc # "idle" => again.started = <<>>


\* The case in which the final message is to be promoted: the workflow has
\* a parent, the turn ran past its last member, and the history holds a
\* message of this workflow.
PromotionDue ==
    /\ config.parent_workflow
    /\ turn_outcome = "Completed"
    /\ promoted.final_message

\* C20 as stated: the final message is saved under the full member id and
\* the observer is notified exactly when the workflow is nested, the turn
\* completed and a final message exists.
C20_SavedAndNotifiedExactlyWhenDue ==
    /\ promoted.saved <=> PromotionDue
    /\ promoted.emitted <=> PromotionDue

\* C20: the final message is saved under the full member id exactly when the
\* workflow is nested, the turn completed (it did not pause, was not
\* cancelled and did not fail) and a final message exists; the observer is
\* notified exactly when, in addition, the workflow has a main object.
C20_SavedWhenDueNotifiedWhenMain ==
    /\ promoted.saved <=> PromotionDue
    /\ promoted.emitted <=> (PromotionDue /\ config.main)

\* A nested workflow with a main object completed a turn in which a member
\* ran, and its final message was saved and the observer notified.
C20_Witness ==
    /\ config.parent_workflow
    /\ turn_outcome = "Completed"
    /\ started # <<>>
    /\ promoted.saved
    /\ promoted.emitted


\* C21: in a chain of nested workflows every workflow reads, for context_id,
\* chat_title, leaf_id and message_history, the value the root holds, and no
\* nested workflow holds a copy of its own, whatever was assigned through
\* whichever workflow of the chain.
C21_EveryWorkflowReadsTheRootValue ==
    \A w \in Chain, attr_name \in RootAttrs :
        /\ get_from_root(held, w, attr_name) = held[1][attr_name]
        /\ w > 1 => held[w][attr_name] = Absent


\* The contexts that have the same branch_msg_id as the context owning the
\* message (two primary lines, both without a fork point, have the same)
Siblings(contexts, msg_id) ==
    {c \in ContextIds :
        contexts[c].branch_msg_id = contexts[context_id_of(msg_id)].branch_msg_id}

ActiveAmong(contexts, S) == {c \in S : contexts[c].active}

\* C22: after activate_branch_with_msg(m), exactly one of the contexts that
\* share the branch_msg_id of the context owning m is active, whatever the
\* active flags were before.
C22_ActivateLeavesOneSiblingActive ==
    (db.last.op = "activate" /\ context_id_of(db.last.msg_id) # NULL) =>
        Cardinality(ActiveAmong(db.contexts,
                                Siblings(db.contexts, db.last.msg_id))) = 1


\* What C23 says of the state after deactivate_all_branches_with_msg and of
\* the state after the two calls, for the messages whose owning context
\* satisfies InScope; db.before is the table the last call found
DeactivateThenActivate(InScope(_, _)) ==
    /\ (db.last.op = "deactivate" /\ InScope(db.before, db.last.msg_id)) =>
          \A c \in ContextIds :
              IF c \in Siblings(db.before, db.last.msg_id)
              THEN ~db.contexts[c].active
              ELSE db.contexts[c].active = db.before[c].active
    /\ ( /\ db.last.op = "activate"
         /\ db.previous.op = "deactivate"
         /\ db.previous.msg_id = db.last.msg_id
         /\ InScope(db.contexts, db.last.msg_id)) =>
          ActiveAmong(db.contexts, Siblings(db.contexts, db.last.msg_id))
              = {context_id_of(db.last.msg_id)}

\* Some context owns the message
Owned(contexts, msg_id) == context_id_of(msg_id) # NULL

\* Some context owns the message, and that context forked at a message
OwnedByFork(contexts, msg_id) ==
    Owned(contexts, msg_id) /\ branch_msg_id_of(contexts, msg_id) # NULL

\* C23 as stated: deactivate_all_branches_with_msg(m) leaves every context
\* with the same branch_msg_id as the owner of m inactive and every other
\* context's flag as it was, and followed by activate_branch_with_msg(m) it
\* leaves the owner of m the only active one among them.
C23_DeactivateSiblingsThenActivate == DeactivateThenActivate(Owned)

\* C23: the same, for a message whose owning context has a branch_msg_id
\* (is not a primary line).
C23_DeactivateForkSiblingsThenActivate == DeactivateThenActivate(OwnedByFork)

\* The owner of the message forked where another context forked; both calls
\* were made for the message, and the owner is active.
C23_Witness ==
    /\ db.last.op = "activate"
    /\ db.previous = [op |-> "deactivate", msg_id |-> db.last.msg_id]
    /\ OwnedByFork(db.contexts, db.last.msg_id)
    /\ Cardinality(Siblings(db.contexts, db.last.msg_id)) >= 2
    /\ db.contexts[context_id_of(db.last.msg_id)].active


\* The last call of save_message appended a message
Appended == last_save.returned # None

\* C24: save_message toggles alt_turn_state exactly when every participant's
\* turn_output was unset immediately before the append, and leaves it
\* unchanged on every other append.
C24_ParityTogglesWhenAllUnset ==
    Appended =>
        ((alt_turn_state # last_save.alt_before) <=>
            \A id \in DOMAIN last_save.outputs_before :
                last_save.outputs_before[id] = None)


\* C25: save_message with empty content returns nothing, appends no message
\* and leaves alt_turn_state unchanged, unless the role is 'output': empty or
\* whitespace-only content of that role is replaced by the 'no output' text
\* and stored.
C25_EmptyContentNotStored ==
    /\ (last_save.content = "" /\ last_save.role # "output") =>
          /\ last_save.returned = None
          /\ message_history = last_save.history_before
          /\ alt_turn_state = last_save.alt_before
    /\ (last_save.role = "output" /\ strip(last_save.content) = "") =>
          /\ last_save.returned # None
          /\ message_history = Append(last_save.history_before, NoOutputText)

\* An empty message of another role than 'output' was refused at a moment
\* when an append would have toggled the flag, after a message was stored.
C25_Witness ==
    /\ last_save.content = ""
    /\ last_save.role = "assistant"
    /\ last_save.returned = None
    /\ new_run(members, last_save.outputs_before)
    /\ Len(get_members(members)) > 0
    /\ message_history # <<>>


\* C26: a second load with the same configuration leaves the same
\* participant ids in the same stored order, the same inputs per participant
\* and the same groups as the first, and no participant is there twice.
C26_SecondLoadEqualsFirst ==
    (Len(load_history) >= 2 /\ load_pc = "done") =>
        /\ load_history[2] = load_history[1]
        /\ Built(LoadState) = load_history[1]
        /\ Cardinality(MemberIdsOf(members)) = Len(members)
        /\ \A i, j \in 1..Len(boxes) : boxes[i] = boxes[j] => i = j

\* The second load of a workflow with a group and an input has finished.
C26_Witness ==
    /\ Len(load_history) = 2
    /\ load_pc = "done"
    /\ boxes # <<>>
    /\ \E i \in 1..Len(members) : members[i].inputs # {}
    /\ Len(members) = 3


\* Every segment is listed in the scope reached by the segments before it
RECURSIVE SegmentsPresent(_, _)
SegmentsPresent(scope, segments) ==
    \/ segments = <<>>
    \/ /\ Head(segments) \in DOMAIN scope.members
       /\ SegmentsPresent(scope.members[Head(segments)], Tail(segments))

RECURSIVE MemberAt(_, _)
MemberAt(scope, segments) ==
    IF Len(segments) = 1 THEN scope.members[Head(segments)]
    ELSE MemberAt(scope.members[Head(segments)], Tail(segments))

\* C27: get_member_by_full_member_id returns the participant found by looking
\* up each segment of the dotted path in the scope reached so far, and returns
\* None, without raising, whenever a segment is absent from the scope it is
\* looked up in.
C27_LookupBySegmentsOrNone ==
    lookup.result # NoLookup =>
        LET segments == split(lookup.full_member_id)
        IN  IF SegmentsPresent(lookup.self, segments)
            THEN lookup.result = Returned(MemberAt(lookup.self, segments))
            ELSE lookup.result = ReturnedNone


\* C28: when an edge of the configuration names a participant id that the
\* participant list does not have, load ends with a configuration error (and
\* so builds no workflow).
C28_DanglingEdgeEndsInConfigurationError ==
    (~InputsNameMembers(config) /\ load_pc = "loop") ~> (load_pc = "raised")


\* load_members has just come to its while loop
AtLoopEntry == load_pc = "loop" /\ members = <<>> /\ iter_pos = 0

IsSingle(cfg) == config_type(cfg) # "workflow"

\* The human and the participant the document is
HumanThenSingle(cfg) ==
    <<[id |-> "1", type |-> "user", loc_x |-> 20],
      [id |-> "2", type |-> config_type(cfg), loc_x |-> 100]>>

SingleAlone(cfg) == <<[id |-> "1", type |-> config_type(cfg), loc_x |-> 100]>>

KindsOf(M) == [i \in 1..Len(M) |-> M[i].type]

\* What C29 says, the participants a single document of each kind is loaded
\* as being given by Wrapped
LoadedAsWrapped(Wrapped(_)) ==
    /\ (IsSingle(config) /\ AtLoopEntry) => pending = Wrapped(config)
    /\ (IsSingle(config) /\ load_pc = "done") =>
          /\ KindsOf(members) = KindsOf(Wrapped(config))
          /\ \A i \in 1..Len(members) : members[i].inputs = {}
    /\ (~IsSingle(config) /\ AtLoopEntry) => pending = SortedByLocX(config.members)
    /\ (~IsSingle(config) /\ load_pc = "done") =>
          MemberIdsOf(members) = ConfigIds(config)

\* C29 as stated: a single participant of every kind is loaded as a human
\* followed by that participant, without edges, and a workflow document is
\* loaded as it is.
C29_SingleLoadedAsHumanAndParticipant == LoadedAsWrapped(HumanThenSingle)

WrappedByKind(cfg) ==
    IF config_type(cfg) = "agent" THEN HumanThenSingle(cfg) ELSE SingleAlone(cfg)

\* C29: a single agent (a document of kind 'agent' or without a kind) is
\* loaded as a human followed by the agent; a single participant of any
\* other kind is loaded as that participant alone; both without edges, and a
\* workflow document is loaded as it is.
C29_SingleAgentLoadedAsHumanAndAgent == LoadedAsWrapped(WrappedByKind)

\* A document without '_TYPE' has been loaded: a human, then the agent.
C29_Witness ==
    /\ "_TYPE" \notin DOMAIN config
    /\ load_pc = "done"
    /\ KindsOf(members) = <<"user", "agent">>
    /\ boxes = <<>>


\* The non-loop edges between listed participants
EdgesAmongParticipants(cfg) ==
    {e \in NonLoopInputs(cfg) : e[1] \in ConfigIds(cfg) /\ e[2] \in ConfigIds(cfg)}

\* The participants that lie on a cycle of those edges
OnCycle(cfg) ==
    {id \in ConfigIds(cfg) :
        Reaches(EdgesAmongParticipants(cfg), id, id)}

KnownKinds == {"agent", "workflow", "user", "block", "node"}

AllKindsKnown(cfg) ==
    \A i \in 1..Len(cfg.members) : cfg.members[i].type \in KnownKinds

\* load_members has not returned and has not raised, it has a next pass to
\* make, and no participant of a cycle has been instantiated
RescansForever ==
    /\ load_pc \in {"idle", "loop"}
    /\ load_pc = "loop" => Len(pending) > 0
    /\ MemberIdsOf(members) \cap OnCycle(config) = {}

\* C30 as stated: whenever the non-loop edges among the configured
\* participants contain a cycle, load_members never returns and never raises.
C30_CycleNeverTerminates ==
    OnCycle(config) # {} => RescansForever

\* C30: when the non-loop edges among the configured participants contain a
\* cycle and every participant is of a kind load_members knows, load_members
\* never returns and never raises: it goes on rescanning the pending list,
\* in which the participants of the cycle stay.
C30_CycleOfKnownKindsNeverTerminates ==
    (OnCycle(config) # {} /\ AllKindsKnown(config)) => RescansForever

\* A participant outside the cycle has been instantiated, and a whole scan
\* of the pending list has found nothing more to instantiate.
C30_Witness ==
    /\ OnCycle(config) # {}
    /\ AllKindsKnown(config)
    /\ load_pc = "loop"
    /\ members # <<>>
    /\ iter_pos = Len(pending)
    /\ Len(pending) = 2

\* The non-loop dependencies the configuration gives a participant
NonLoopDependencies(cfg, id) == {e[2] : e \in {x \in NonLoopInputs(cfg) : x[1] = id}}

\* The ids stored before position i of self.members
StoredBefore(i) == {members[j].member_id : j \in 1..(i - 1)}

\* The listed participants that could be instantiated once `before` are:
\* not instantiated themselves, every non-loop dependency instantiated.
ReadyAfter(cfg, before) ==
    {m \in SeqToSet(cfg.members) :
        m.id \notin before /\ NonLoopDependencies(cfg, m.id) \subseteq before}

\* C31: in the stored order built by load_members every participant comes
\* after all of its non-loop dependencies, the participant stored at each
\* position is one of smallest loc_x among those then ready (not yet
\* instantiated, every non-loop dependency instantiated), and without edges
\* the stored order of a finished load is the ascending order of loc_x.
C31_StoredOrderIsReadyFirstByLocX ==
    /\ \A i \in 1..Len(members) :
          LET before == StoredBefore(i)
              ready == ReadyAfter(config, before)
          IN  /\ NonLoopDependencies(config, members[i].member_id) \subseteq before
              /\ \E m \in ready : m.id = members[i].member_id
                                     /\ m.loc_x = members[i].loc_x
              /\ \A m \in ready : members[i].loc_x <= m.loc_x
    /\ (load_pc = "done" /\ config.inputs = {}) =>
          /\ EveryParticipantOnce
          /\ \A i \in 1..(Len(members) - 1) : members[i].loc_x <= members[i + 1].loc_x

\* C31 witness: a load of three participants has ended in which the
\* leftmost participant was deferred behind its dependency and stored last,
\* and the document lists the participants out of position order.
C31_Witness ==
    /\ load_pc = "done"
    /\ Len(members) = 3
    /\ NonLoopDependencies(config, members[3].member_id) # {}
    /\ \A i \in 1..2 : members[3].loc_x < members[i].loc_x
    /\ \E i \in 1..2 : config.members[i].loc_x > config.members[i + 1].loc_x

\* The instantiated participants that box bookkeeping looks at, in stored
\* order
Substantive(M) == SelectSeq(M, LAMBDA m : m.type \in {"workflow", "agent", "block"})

\* Position k of S is within the threshold of position k - 1
NearPrevious(S, k) == k > 1 /\ Abs(S[k].loc_x - S[k - 1].loc_x) < BoxThreshold

\* The maximal runs of two or more participants of S, each near its previous
ProximityRuns(S) ==
    {{S[j].member_id : j \in a..b} :
        <<a, b>> \in {r \in (1..Len(S)) \X (1..Len(S)) :
                         /\ r[1] < r[2]
                         /\ \A k \in (r[1] + 1)..r[2] : NearPrevious(S, k)
                         /\ ~NearPrevious(S, r[1])
                         /\ (r[2] < Len(S) => ~NearPrevious(S, r[2] + 1))}}

\* The groups load_members has built when its while loop is left, before
\* the boxes are validated
GroupsBeforeValidation ==
    IF current_box_member_ids # {} THEN Append(boxes, current_box_member_ids) ELSE boxes

AtValidation == load_pc = "loop" /\ pending = <<>>

\* C32: when the while loop of load_members is left, the groups built are
\* exactly the maximal runs of participants of kind agent, workflow or block
\* in which each is less than 10 from the previous participant of those
\* kinds in stored order, each run once.
C32_GroupsAreProximityRuns ==
    AtValidation =>
        /\ SeqToSet(GroupsBeforeValidation) = ProximityRuns(Substantive(members))
        /\ Len(GroupsBeforeValidation) = Cardinality(ProximityRuns(Substantive(members)))

\* The groups load_members has built for cfg when its while loop is left
GroupsBuilt(cfg) ==
    LET w == run_while(cfg, load_members_entry(cfg), LoadPasses(cfg))
    IN  SeqToSet(IF w.current_box_member_ids # {}
                 THEN Append(w.boxes, w.current_box_member_ids) ELSE w.boxes)

\* Some member of the group reaches another member of it over non-loop edges
DependencyInside(cfg, group) ==
    \E m \in group, n \in group : m # n /\ Reaches(NonLoopInputs(cfg), m, n)

DiscardedGroups(cfg) == {g \in GroupsBuilt(cfg) : DependencyInside(cfg, g)}

\* The step at which member_id's producer was started in this turn (0: not)
StartStep(member_id) ==
    IF \E k \in 1..Len(started) : member_id \in started[k]
    THEN CHOOSE k \in 1..Len(started) : member_id \in started[k]
    ELSE 0

\* C33: a group in which validation finds a member reaching another member
\* over non-loop edges is removed from self.boxes: none of its members is
\* in any box, and in a turn each of its members that is started is started
\* alone, in stored order, the one before it having ended.
C33_DiscardedGroupRunsSequentially ==
    \A g \in DiscardedGroups(config) :
        /\ \A i \in 1..Len(boxes) : boxes[i] \cap g = {}
        /\ \A m \in g : get_member_async_group(m) = {}
        /\ \A k \in 1..Len(started) : started[k] \cap g # {} => Cardinality(started[k]) = 1
        /\ \A p \in g, q \in g :
              (Precedes(p, q) /\ StartStep(p) > 0 /\ StartStep(q) > 0) =>
                  /\ StartStep(p) < StartStep(q)
                  /\ task[p] \notin TaskLive

\* C33 witness: a group of two participants was discarded, and in a turn
\* both have been started, the second being driven alone after the first
\* has finished.
C33_Witness ==
    \E g \in DiscardedGroups(config) :
        /\ Cardinality(g) = 2
        /\ boxes = <<>>
        /\ \E p \in g, q \in g :
              /\ Precedes(p, q)
              /\ StartStep(p) > 0 /\ StartStep(q) = StartStep(p) + 1
              /\ task[p] = "done" /\ task[q] = "running"
              /\ turn_pc = "member"

\* The driven producer of member_id hands out the skip marker in this step
SkipStep(member_id) ==
    /\ turn_pc = "member"
    /\ LoopMember.member_id = member_id
    /\ task[member_id] = "running"
    /\ task'[member_id] = "skipped"

\* What receive hands to its caller for member_id
YieldedOf(Y, member_id) == {y \in Y : y.member_id = member_id}

\* The turn has ended in a pause, through `finally`
PausedNext ==
    turn_outcome' = "Paused" /\ turn_pc' = "idle" /\ responding' = FALSE /\ gen_members' = {}

\* C34: when the producer of an ungrouped participant hands out the skip
\* marker, nothing is yielded for it, and the turn goes to the checks of
\* autorun and of the pause kinds and then to the next participant, as after
\* a producer that has run out; as long as the turn lasts nothing more of
\* that participant is consumed: its turn_output and what was yielded for
\* it stay as they are.
C34_SkipEndsParticipantOnly ==
    [][\A member_id \in MemberIdsOf(members) :
          /\ SkipStep(member_id) =>
                /\ get_member_async_group(member_id) = {}
                /\ yielded' = yielded
                /\ turn_output' = turn_output
                /\ IF ~autorun THEN PausedNext
                   ELSE IF LoopMember.type \in {"user", "contact"}
                           /\ member_id # from_member_id
                   THEN PausedNext
                   ELSE /\ turn_pc' = "for"
                        /\ loop_pos' = loop_pos + 1
                        /\ responding' = TRUE
                        /\ turn_outcome' = turn_outcome
          /\ (task[member_id] = "skipped" /\ task'[member_id] = "skipped" /\ responding) =>
                /\ turn_output'[member_id] = turn_output[member_id]
                /\ YieldedOf(yielded', member_id) = YieldedOf(yielded, member_id)
    ]_vars

\* C34 witness: a participant was yielded for and then skipped, it has
\* stored no turn_output, and the turn is driving the next participant.
C34_Witness ==
    \E member_id \in MemberIdsOf(members) :
        /\ task[member_id] = "skipped"
        /\ turn_output[member_id] = None
        /\ YieldedOf(yielded, member_id) # {}
        /\ turn_pc = "member"
        /\ loop_pos = IndexOf(members, member_id) + 1
        /\ task[LoopMember.member_id] = "running"

\* C35: after any sequence of editor operations on edges (lines drawn and
\* added, loop flags edited in the line's settings, lines and members
\* deleted) the lines whose loop flag is not set form an acyclic graph.
C35_NonLoopLinesAcyclic == Acyclic(NonLoopLines(lines))

\* C35 witness: clearing the loop flag of a line that closes a cycle has
\* just been refused, after a member with its lines had been deleted
\* earlier.
C35_Witness ==
    /\ ed_last.op = "save_config"
    /\ ed_last.outcome = "looper_set"
    /\ ~ed_last.looper
    /\ lines[<<ed_last.member_id, ed_last.input_member_id>>].looper
    /\ Reaches(NonLoopLines(lines), ed_last.input_member_id, ed_last.member_id)
    /\ members_in_view # ViewIds

\* The turn was asked from the first participant in stored order
FromFirstParticipant ==
    from_member_id = None \/ (members # <<>> /\ from_member_id = members[1].member_id)

\* The producer of member_id has been started in this turn
StartedInTurn(member_id) == task[member_id] # "none"

\* C36: in a turn started from the first participant, a participant whose
\* producer has been started has every participant it depends on through a
\* non-loop edge finished (run out or skipped) in that turn; members of a
\* box are participants like the others.
C36_NoStartBeforeDependenciesFinished ==
    FromFirstParticipant =>
        \A p \in DOMAIN task :
            StartedInTurn(p) =>
                \A d \in NonLoopDependencies(config, p) : task[d] \in TaskEnded

\* The boxes that hold member_id
BoxesOf(member_id) == {i \in 1..Len(boxes) : member_id \in boxes[i]}

\* C37: after load_members the boxes are pairwise disjoint, so that every
\* participant is in at most one box and get_member_async_group returns
\* the only box that holds it, and no box holds a participant of kind user.
C37_BoxesDisjointWithoutHumans ==
    load_pc = "done" =>
        /\ \A i \in 1..Len(boxes), j \in 1..Len(boxes) :
              i # j => boxes[i] \cap boxes[j] = {}
        /\ \A m \in MemberIdsOf(members) :
              /\ Cardinality(BoxesOf(m)) <= 1
              /\ \A i \in BoxesOf(m) : get_member_async_group(m) = boxes[i]
              /\ MemberById(members, m).type = "user" => BoxesOf(m) = {}

\* C37 witness: a load has left a box of two participants with a user
\* stored between them, within the threshold of both.
C37_Witness ==
    /\ load_pc = "done"
    /\ Len(members) = 3
    /\ members[2].type = "user"
    /\ boxes = <<{members[1].member_id, members[3].member_id}>>
    /\ Abs(members[2].loc_x - members[1].loc_x) < BoxThreshold
    /\ Abs(members[3].loc_x - members[2].loc_x) < BoxThreshold

\* The steps of this turn at which member_id's producer was started
StartSteps(member_id) == {k \in 1..Len(started) : member_id \in started[k]}

\* C38: within one turn the producer of no participant is started more than
\* once, alone or with its box, whatever participant the turn is asked from.
C38_ProducerStartedAtMostOnce ==
    \A member_id \in MemberIdsOf(members) : Cardinality(StartSteps(member_id)) <= 1

\* C38 witness: a turn asked from the second member of a box has run to
\* its end: the box was started as a whole at that member, and the for loop
\* has gone on to a third participant stored after the box.
C38_Witness ==
    /\ turn_outcome = "Completed"
    /\ Len(members) = 3
    /\ boxes = <<{members[1].member_id, members[2].member_id}>>
    /\ from_member_id = members[2].member_id
    /\ started = <<boxes[1], {members[3].member_id}>>

\* C39: when every producer that is started ends (runs out, skips, raises
\* or is cancelled), a turn that is responding ends as Completed, Paused,
\* Cancelled or Failed, with responding reset by the cleanup.
C39_EveryTurnEnds ==
    responding ~> (~responding /\ turn_pc = "idle" /\ gen_members = {}
                     /\ turn_outcome \in TurnEnds)

\* C39 witness: a turn of three participants in which a box was started
\* has ended as Failed through the cleanup: one producer of the box raised,
\* another has run out.
C39_Witness ==
    /\ Len(members) = 3
    /\ turn_outcome = "Failed"
    /\ ~responding
    /\ \E k \in 1..Len(started) : Cardinality(started[k]) = 2
    /\ \E member_id \in DOMAIN task : task[member_id] = "raised"
    /\ \E member_id \in DOMAIN task : task[member_id] = "done"

\* A step of, or into, a turn asked from an id that no participant has
StepOfUnknownFromTurn ==
    /\ from_member_id' = UnknownMemberId
    /\ turn_pc # "idle" \/ turn_pc' # "idle"

\* Such a turn has started no producer, yielded nothing, and leaves every
\* turn_output as it was
NothingRunInStep ==
    /\ started' = <<>>
    /\ \A id \in DOMAIN task' : task'[id] = "none"
    /\ yielded' = {}
    /\ turn_output' = turn_output

\* C40: a turn asked from an id that is the id of no participant starts no
\* producer, yields nothing, saves no message, and leaves every
\* participant's turn_output unchanged.
C40_UnknownFromDoesNothing ==
    [][StepOfUnknownFromTurn => (NothingRunInStep /\ ~promoted'.saved)]_vars

==============================================================================
